---- MODULE Spec2Model ----
(***************************************************************************)
(* hootvoice: the dictation pipeline.                                      *)
(*                                                                         *)
(*   src/src/audio/vad.rs            VoiceActivityDetector                 *)
(*   src/src/app/chunk_processor.rs  ChunkProcessor, worker, noise filter  *)
(*   src/src/core/transcriber.rs     Transcriber (watchdog, finalize)      *)
(*   src/src/core/audio_io.rs        AudioIO (capture thread, callbacks)   *)
(*   src/src/core.rs                 WhisperCore (toggle, start, stop)     *)
(*                                                                         *)
(* Units.  Wall-clock time and audio durations are counted in tenths of a  *)
(* second.  Audio is counted in blocks of 1600 samples, so that at the     *)
(* 16 kHz the Transcriber passes one block lasts one tenth of a second.    *)
(* A run of samples is a sequence of frames [n, rms]: n blocks whose       *)
(* root-mean-square level is rms thousandths.  start_time and duration of  *)
(* a chunk are f32 quotients samples / sample_rate in the source; the      *)
(* model keeps the exact quotient, in tenths of a second.                  *)
(***************************************************************************)
EXTENDS Integers, Sequences, FiniteSets, TLC

VARIABLES
    now,                     \* the wall clock read by Instant::now()
    vad,                     \* ChunkProcessor.vad : VoiceActivityDetector
    chunks,                  \* ChunkProcessor.chunks
    next_chunk_id,           \* ChunkProcessor.next_chunk_id
    current_buffer,          \* ChunkProcessor.current_buffer
    chunk_start_time,        \* ChunkProcessor.chunk_start_time
    total_samples_processed, \* ChunkProcessor.total_samples_processed
    tx,                      \* ChunkProcessor.tx is Some (the sender is open)
    rx,                      \* the Receiver is alive (not yet dropped)
    queue,                   \* chunks in flight in the mpsc channel
    wpc,                     \* position of the worker thread
    wchunk,                  \* the chunk the worker is running inference on
    results,                 \* ChunkProcessor.results
    fpc,                     \* position of finish()
    returned,                \* the value finish() returned
    hist,                    \* history of the session (observation only)
    core,                    \* the state the threads of WhisperCore share
    threads,                 \* the threads spawned since construction
    procs,                   \* the ChunkProcessors the Transcriber created
    call                     \* a call of a function on text: arguments, progress, result

cpvars == <<now, vad, chunks, next_chunk_id, current_buffer, chunk_start_time,
            total_samples_processed, tx, rx, queue, wpc, wchunk, results, fpc,
            returned, hist>>

corevars == <<core, threads, procs>>

fnvars == <<call>>

vars == <<cpvars, corevars, fnvars>>

(***************************************************************************)
(* Bounds of the model.                                                    *)
(***************************************************************************)
MaxFrames == 3
MaxSegFrames == 4
MaxTicks == 2

(***************************************************************************)
(* Sequences of frames.                                                    *)
(***************************************************************************)
RECURSIVE NumSamples(_)
NumSamples(s) == IF s = <<>> THEN 0 ELSE Head(s).n + NumSamples(Tail(s))

RECURSIVE SumSquares(_)
SumSquares(s) ==
    IF s = <<>> THEN 0 ELSE Head(s).n * Head(s).rms * Head(s).rms + SumSquares(Tail(s))

\* calculate_rms(samples) > t, with t in thousandths; an empty slice has RMS 0.
RmsAbove(s, t) == NumSamples(s) > 0 /\ SumSquares(s) > t * t * NumSamples(s)

\* calculate_rms(samples) < t
RmsBelow(s, t) ==
    IF NumSamples(s) = 0 THEN 0 < t ELSE SumSquares(s) < t * t * NumSamples(s)

(***************************************************************************)
(* Option values: None is the empty tuple, Some(x) the one-element tuple.  *)
(***************************************************************************)
None == <<>>
Some(x) == <<x>>
Unwrap(o) == o[1]

(***************************************************************************)
(* VoiceActivityDetector (src/src/audio/vad.rs).                           *)
(* rms_buffer and chunk_started are written and never read by the source;  *)
(* the model leaves them out.  recording_started is only tested for None.  *)
(***************************************************************************)
SampleRate == 10           \* 16_000 samples per second = 10 blocks per second

SilenceThresholdNormal == 5        \* 0.005
BaseSilenceNormal == 20            \* 2.0 s
MinChunkNormal == 30               \* 3.0 s
MaxChunkNormal == 300              \* 30.0 s
SilenceThresholdAggressive == 7    \* 0.007
BaseSilenceAggressive == 10        \* 1.0 s
MinChunkAggressive == 15           \* 1.5 s
MaxChunkAggressive == 250          \* 25.0 s

VadStrategy == {"Normal", "Aggressive"}

apply_strategy(v, strategy) ==
    IF strategy = "Normal"
    THEN [v EXCEPT !.silence_threshold = SilenceThresholdNormal,
                   !.base_silence_duration = BaseSilenceNormal,
                   !.min_chunk_duration = MinChunkNormal,
                   !.max_chunk_duration = MaxChunkNormal]
    ELSE [v EXCEPT !.silence_threshold = SilenceThresholdAggressive,
                   !.base_silence_duration = BaseSilenceAggressive,
                   !.min_chunk_duration = MinChunkAggressive,
                   !.max_chunk_duration = MaxChunkAggressive]

new_with_strategy(sample_rate, strategy) ==
    apply_strategy([sample_rate |-> sample_rate,
                    silence_threshold |-> SilenceThresholdNormal,
                    base_silence_duration |-> BaseSilenceNormal,
                    min_chunk_duration |-> MinChunkNormal,
                    max_chunk_duration |-> MaxChunkNormal,
                    strategy |-> strategy,
                    recording_started |-> FALSE,
                    silence_started |-> None,
                    total_samples |-> 0,
                    chunk_samples |-> 0,
                    speech_frames |-> 0,
                    total_frames |-> 0], strategy)

start_recording(v) ==
    [v EXCEPT !.recording_started = TRUE, !.chunk_samples = 0,
              !.speech_frames = 0, !.total_frames = 0]

\* a required silence of one second, whatever the chunk's length
get_fixed_silence_threshold(v, current_duration) == 10

\* current_duration in tenths of a second; the result too.
get_dynamic_silence_threshold(v, current_duration) ==
    IF v.strategy = "Normal"
    THEN IF current_duration < 80 THEN v.base_silence_duration
         ELSE IF current_duration < 150 THEN 10
         ELSE IF current_duration < 250 THEN 5
         ELSE 3
    ELSE IF current_duration < 60 THEN v.base_silence_duration
         ELSE IF current_duration < 120 THEN 5
         ELSE IF current_duration < 200 THEN 3
         ELSE 2

\* a chunk with one speech frame counts as speech
contains_any_speech(v) == v.speech_frames > 0

\* speech_frames / total_frames > 0.1
contains_speech(v) ==
    IF v.total_frames = 0 THEN FALSE ELSE 10 * v.speech_frames > v.total_frames

reset_chunk(v) ==
    [v EXCEPT !.silence_started = None, !.chunk_samples = 0,
              !.speech_frames = 0, !.total_frames = 0]

\* samples / sample_rate seconds, in tenths of a second
DurationOf(samples, sample_rate) == (samples * 10) \div sample_rate

\* a silence timer that a frame which is not silent leaves running
SilenceTimerKept(v, is_silent, silence_start) ==
    IF is_silent THEN [v EXCEPT !.silence_started = Some(silence_start)]
    ELSE v

\* the silence timer after a frame: started or left running by a silent
\* frame, reset by any other
SilenceTimer(v, is_silent, silence_start) ==
    IF is_silent THEN [v EXCEPT !.silence_started = Some(silence_start)]
    ELSE [v EXCEPT !.silence_started = None]

\* a process_audio without the forced split at the maximum chunk length
VadProcessAudioNoForcedSplit(v, samples, t) ==
    LET v0 == IF v.recording_started THEN v ELSE start_recording(v)
        speech == RmsAbove(samples, v0.silence_threshold)
        v1 == [v0 EXCEPT !.total_samples = @ + NumSamples(samples),
                         !.chunk_samples = @ + NumSamples(samples),
                         !.total_frames = @ + 1,
                         !.speech_frames = IF speech THEN @ + 1 ELSE @]
        chunk_duration == DurationOf(v1.chunk_samples, v1.sample_rate)
        required_silence_duration == get_dynamic_silence_threshold(v1, chunk_duration)
        is_silent == RmsBelow(samples, v1.silence_threshold)
        silence_start == IF v1.silence_started = None THEN t
                         ELSE Unwrap(v1.silence_started)
        silence_duration == t - silence_start
        v2 == SilenceTimer(v1, is_silent, silence_start)
    IN  IF is_silent /\ chunk_duration >= v1.min_chunk_duration
                     /\ silence_duration >= required_silence_duration
        THEN IF contains_speech(v2)
             THEN [decision |-> "Split", vad |-> reset_chunk(v2)]
             ELSE [decision |-> "Skip", vad |-> reset_chunk(v2)]
        ELSE [decision |-> "Continue", vad |-> v2]

\* VoiceActivityDetector::process_audio at wall-clock time t:
\* the decision and the detector's next state.
VadProcessAudio(v, samples, t) ==
    LET v0 == IF v.recording_started THEN v ELSE start_recording(v)
        speech == RmsAbove(samples, v0.silence_threshold)
        v1 == [v0 EXCEPT !.total_samples = @ + NumSamples(samples),
                         !.chunk_samples = @ + NumSamples(samples),
                         !.total_frames = @ + 1,
                         !.speech_frames = IF speech THEN @ + 1 ELSE @]
        chunk_duration == DurationOf(v1.chunk_samples, v1.sample_rate)
        required_silence_duration == get_dynamic_silence_threshold(v1, chunk_duration)
        is_silent == RmsBelow(samples, v1.silence_threshold)
        silence_start == IF v1.silence_started = None THEN t
                         ELSE Unwrap(v1.silence_started)
        silence_duration == t - silence_start
        v2 == SilenceTimer(v1, is_silent, silence_start)
    IN  IF is_silent /\ chunk_duration >= v1.min_chunk_duration
                     /\ silence_duration >= required_silence_duration
        THEN IF contains_speech(v2)
             THEN [decision |-> "Split", vad |-> reset_chunk(v2)]
             ELSE [decision |-> "Skip", vad |-> reset_chunk(v2)]
        ELSE IF chunk_duration >= v2.max_chunk_duration
             THEN [decision |-> "Split", vad |-> reset_chunk(v2)]
             ELSE [decision |-> "Continue", vad |-> v2]

(***************************************************************************)
(* Text (src/src/app/chunk_processor.rs).  A string is the sequence of its *)
(* characters, each character a one-character string; Note stands for the  *)
(* character U+266A, which is neither whitespace nor punctuation.          *)
(***************************************************************************)
Note == "NOTE"
Whitespace == {" "}
Punctuation == {",", ".", "!", "?", "(", ")", "[", "]"}

IsPrefix(p, s) == Len(p) <= Len(s) /\ SubSeq(s, 1, Len(p)) = p

\* str::replacen(pattern, "", 1): the first match only
RemoveFirst(s, pattern) ==
    IF pattern = <<>> \/ ~\E a \in 0..(Len(s) - Len(pattern)) :
                             SubSeq(s, a + 1, a + Len(pattern)) = pattern
    THEN s
    ELSE LET a == CHOOSE a \in 0..(Len(s) - Len(pattern)) :
                     /\ SubSeq(s, a + 1, a + Len(pattern)) = pattern
                     /\ \A b \in 0..(a - 1) : SubSeq(s, b + 1, b + Len(pattern)) # pattern
         IN  SubSeq(s, 1, a) \o SubSeq(s, a + Len(pattern) + 1, Len(s))

\* str::replace(pattern, ""): the non-overlapping matches, left to right
RECURSIVE RemoveAll(_, _)
RemoveAll(s, pattern) ==
    IF s = <<>> \/ pattern = <<>> THEN s
    ELSE IF IsPrefix(pattern, s)
         THEN RemoveAll(SubSeq(s, Len(pattern) + 1, Len(s)), pattern)
         ELSE <<Head(s)>> \o RemoveAll(Tail(s), pattern)

RECURSIVE TrimStart(_)
TrimStart(s) ==
    IF s # <<>> /\ Head(s) \in Whitespace THEN TrimStart(Tail(s)) ELSE s

RECURSIVE TrimEnd(_)
TrimEnd(s) ==
    IF s # <<>> /\ s[Len(s)] \in Whitespace
    THEN TrimEnd(SubSeq(s, 1, Len(s) - 1)) ELSE s

Trim(s) == TrimEnd(TrimStart(s))

is_punct_or_space_only(s) ==
    \A i \in 1..Len(s) : s[i] \in Whitespace \/ s[i] \in Punctuation

noise_patterns ==
    << <<"(", "m", "u", "s", "i", "c", ")">>,
       <<"(", "s", "o", "u", "n", "d", ")">>,
       <<"(", "a", "p", "p", "l", "a", "u", "s", "e", ")">>,
       <<"(", "l", "a", "u", "g", "h", ")">>,
       <<"(", "c", "o", "u", "g", "h", ")">>,
       <<"[", "m", "u", "s", "i", "c", "]">>,
       <<"[", "s", "o", "u", "n", "d", "]">>,
       <<"[", "a", "p", "p", "l", "a", "u", "s", "e", "]">>,
       <<"[", "l", "a", "u", "g", "h", "]">>,
       <<"[", "c", "o", "u", "g", "h", "]">>,
       <<Note>> >>

\* the loop over noise_patterns, from the k-th pattern on
RECURSIVE RemovePatternsFrom(_, _)
RemovePatternsFrom(s, k) ==
    IF k > Len(noise_patterns) THEN s
    ELSE RemovePatternsFrom(RemoveAll(s, noise_patterns[k]), k + 1)

filter_noise_text(text) ==
    LET trimmed == Trim(RemovePatternsFrom(text, 1))
    IN  IF is_punct_or_space_only(trimmed) THEN <<>> ELSE trimmed

(***************************************************************************)
(* ChunkProcessor (src/src/app/chunk_processor.rs).                        *)
(* ChunkResult.processing_time is a wall-clock measurement that nothing    *)
(* reads; the model leaves it out.                                         *)
(***************************************************************************)
FinishNoiseFloor == 5      \* 0.005

\* what one call of process_audio may be given
FrameLens == {30, 300}
FrameLevels == {0, 50}
Frames == [n : FrameLens, rms : FrameLevels]

\* what the engine may return for a chunk: an error, or a text
EngineTexts ==
    { <<"h", "i">>,
      <<"(", "m", "u", "s", "i", "c", ")", " ">>,
      <<",", " ", ".">> }
InferenceResults ==
    {[ok |-> FALSE, text |-> <<>>]} \cup {[ok |-> TRUE, text |-> t] : t \in EngineTexts}

\* the fields of the ChunkProcessor that process_audio and finish work on
Fields ==
    [chunks |-> chunks, next_chunk_id |-> next_chunk_id,
     current_buffer |-> current_buffer, chunk_start_time |-> chunk_start_time,
     total_samples_processed |-> total_samples_processed, queue |-> queue,
     tx |-> tx, rx |-> rx]

\* mpsc::Sender::send, its error ignored: the chunk is queued while the
\* Receiver is alive, and lost once the Receiver has been dropped
Send(st, chunk) == IF st.tx /\ st.rx THEN Append(st.queue, chunk) ELSE st.queue

\* reset_buffer without the update of chunk_start_time
reset_buffer_keep_start(st) == [st EXCEPT !.current_buffer = <<>>]

reset_buffer(st) ==
    [st EXCEPT !.chunk_start_time = DurationOf(st.total_samples_processed, SampleRate),
               !.current_buffer = <<>>]

\* create_and_send_chunk taking the duration from the session's sample
\* count instead of the buffer's
create_and_send_chunk_total(st, sample_rate) ==
    IF st.current_buffer = <<>> THEN st
    ELSE LET chunk == [id |-> st.next_chunk_id,
                       samples |-> st.current_buffer,
                       start_time |-> st.chunk_start_time,
                       duration |-> DurationOf(st.total_samples_processed, sample_rate)]
         IN  reset_buffer([st EXCEPT !.queue = Send(st, chunk),
                                     !.chunks = Append(@, chunk),
                                     !.next_chunk_id = @ + 1])

\* create_and_send_chunk without the reset of the buffer
create_and_send_chunk_keep_buffer(st, sample_rate) ==
    IF st.current_buffer = <<>> THEN st
    ELSE LET chunk == [id |-> st.next_chunk_id,
                       samples |-> st.current_buffer,
                       start_time |-> st.chunk_start_time,
                       duration |-> DurationOf(NumSamples(st.current_buffer), sample_rate)]
         IN  [st EXCEPT !.queue = Send(st, chunk),
                        !.chunks = Append(@, chunk),
                        !.next_chunk_id = @ + 1]

create_and_send_chunk(st, sample_rate) ==
    IF st.current_buffer = <<>> THEN st
    ELSE LET chunk == [id |-> st.next_chunk_id,
                       samples |-> st.current_buffer,
                       start_time |-> st.chunk_start_time,
                       duration |-> DurationOf(NumSamples(st.current_buffer), sample_rate)]
         IN  reset_buffer([st EXCEPT !.queue = Send(st, chunk),
                                     !.chunks = Append(@, chunk),
                                     !.next_chunk_id = @ + 1])

\* a process_audio that makes a chunk of the audio a Skip discards
ProcessDecisionChunkOnSkip(st, samples, decision, sample_rate) ==
    LET st1 == [st EXCEPT !.current_buffer = @ \o samples,
                          !.total_samples_processed = @ + NumSamples(samples)]
    IN  IF decision \in {"Split", "Skip"} THEN create_and_send_chunk(st1, sample_rate)
        ELSE st1

\* ChunkProcessor::process_audio on the fields st with the VAD's decision
ProcessDecision(st, samples, decision, sample_rate) ==
    LET st1 == [st EXCEPT !.current_buffer = @ \o samples,
                          !.total_samples_processed = @ + NumSamples(samples)]
    IN  IF decision = "Split" THEN create_and_send_chunk(st1, sample_rate)
        ELSE IF decision = "Skip" THEN reset_buffer(st1)
        ELSE st1

SetFields(st) ==
    /\ chunks' = st.chunks
    /\ next_chunk_id' = st.next_chunk_id
    /\ current_buffer' = st.current_buffer
    /\ chunk_start_time' = st.chunk_start_time
    /\ total_samples_processed' = st.total_samples_processed
    /\ queue' = st.queue

\* stable sort by id (Vec::sort_by_key): insertion of r after the last
\* element whose id is not larger
RECURSIVE InsertById(_, _)
InsertById(sorted, r) ==
    IF sorted = <<>> THEN <<r>>
    ELSE IF r.id < Head(sorted).id THEN <<r>> \o sorted
         ELSE <<Head(sorted)>> \o InsertById(Tail(sorted), r)

\* a sort on the reversed key
RECURSIVE InsertByIdDescending(_, _)
InsertByIdDescending(sorted, r) ==
    IF sorted = <<>> THEN <<r>>
    ELSE IF r.id > Head(sorted).id THEN <<r>> \o sorted
         ELSE <<Head(sorted)>> \o InsertByIdDescending(Tail(sorted), r)

RECURSIVE SortByIdDescending(_)
SortByIdDescending(rs) ==
    IF rs = <<>> THEN <<>>
    ELSE InsertByIdDescending(SortByIdDescending(SubSeq(rs, 1, Len(rs) - 1)), rs[Len(rs)])

RECURSIVE SortById(_)
SortById(rs) ==
    IF rs = <<>> THEN <<>>
    ELSE InsertById(SortById(SubSeq(rs, 1, Len(rs) - 1)), rs[Len(rs)])

(***************************************************************************)
(* WhisperCore::new (src/src/core.rs): the fields the threads share.       *)
(* recording_thread and processing_thread hold the index of a thread in    *)
(* threads, processor the index of a ChunkProcessor in procs.  The locks   *)
(* of recording_thread and processing_thread are held by stop threads      *)
(* while they join the handle they took; the other Mutexes are held for    *)
(* the time of one step.  toggles, callbacks and cleared_by are            *)
(* observations: the toggles that spawned a thread, the device callbacks   *)
(* that ran, and the start_capture call that last cleared the buffer;     *)
(* gain_passed is the value set_input_gain was last called with, and       *)
(* auto_stop_passed the values set_auto_stop_params was last called with.  *)
(***************************************************************************)
DefaultAutoStopSilenceSecs == 100     \* 10.0 s
DefaultMaxRecordSecs == 6000          \* 600.0 s
DefaultInputGain == 100               \* 1.0, in hundredths

CoreNew ==
    [state |-> "Idle",
     audio_buffer |-> <<>>,
     stop_flag |-> FALSE,
     current_session |-> 0,
     recording_thread |-> None,
     recording_thread_locked |-> FALSE,
     processing_thread |-> None,
     processing_thread_locked |-> FALSE,
     processor |-> None,
     last_processed_len |-> 0,
     record_started_at |-> None,
     chunk_strategy |-> "Normal",
     auto_stop_silence_secs |-> DefaultAutoStopSilenceSecs,
     max_record_secs |-> DefaultMaxRecordSecs,
     active_streams |-> 0,
     input_gain |-> DefaultInputGain,
     gain_passed |-> None,
     auto_stop_passed |-> None,
     toggles |-> 0,
     callbacks |-> 0,
     appended |-> 0,
     cleared_by |-> 0]

InitCP ==
    /\ now = 0
    /\ \E strategy \in VadStrategy : vad = new_with_strategy(SampleRate, strategy)
    /\ chunks = <<>>
    /\ next_chunk_id = 0
    /\ current_buffer = <<>>
    /\ chunk_start_time = 0
    /\ total_samples_processed = 0
    /\ tx = TRUE
    /\ rx = TRUE
    /\ queue = <<>>
    /\ wpc = "none"
    /\ wchunk = None
    /\ results = <<>>
    /\ fpc = "idle"
    /\ returned = <<>>
    /\ hist = [frames |-> 0, log |-> <<>>, sent |-> {}, skipped |-> <<>>,
               final_dropped |-> 0, closed_with |-> <<>>, state |-> "pending",
               outcome |-> [id \in {} |-> "none"], decision |-> "none"]
    /\ core = CoreNew
    /\ threads = <<>>
    /\ procs = <<>>
    /\ call = None

\* ChunkProcessor::start_worker: spawns the worker, starts the VAD
StartWorker ==
    /\ wpc = "none"
    /\ wpc' = "create"
    /\ vad' = start_recording(vad)
    /\ UNCHANGED <<fnvars, corevars, now, chunks, next_chunk_id, current_buffer, chunk_start_time,
                   total_samples_processed, tx, rx, queue, wchunk, results, fpc,
                   returned, hist>>

\* the wall clock advances, a second at a time
Tick ==
    /\ wpc # "none" /\ fpc = "idle"
    /\ now < MaxTicks * 10
    /\ now' = now + 10
    /\ UNCHANGED <<fnvars, corevars, vad, chunks, next_chunk_id, current_buffer, chunk_start_time,
                   total_samples_processed, tx, rx, queue, wpc, wchunk, results,
                   fpc, returned, hist>>

\* ChunkProcessor::process_audio(samples, 16_000), at most max_frames times
ProcessAudioUpTo(max_frames) ==
    /\ wpc # "none" /\ fpc = "idle"
    /\ hist.frames < max_frames
    /\ \E f \in Frames :
         LET samples == <<f>>
             d == VadProcessAudio(vad, samples, now)
             st == ProcessDecision(Fields, samples, d.decision, SampleRate)
         IN  /\ vad' = d.vad
             /\ SetFields(st)
             /\ hist' = [hist EXCEPT
                   !.frames = @ + 1,
                   !.decision = d.decision,
                   !.sent = IF Len(st.queue) > Len(queue)
                            THEN @ \cup {next_chunk_id} ELSE @,
                   !.skipped = IF d.decision = "Skip"
                               THEN Append(@, [before |-> next_chunk_id,
                                               n |-> NumSamples(current_buffer \o samples)])
                               ELSE @]
    /\ UNCHANGED <<fnvars, corevars, now, tx, rx, wpc, wchunk, results, fpc, returned>>

ProcessAudio == ProcessAudioUpTo(MaxFrames)

(***************************************************************************)
(* The worker thread spawned by start_worker.                              *)
(***************************************************************************)
\* ctx.create_state() succeeds
WorkerCreateStateOk ==
    /\ wpc = "create"
    /\ wpc' = "recv"
    /\ hist' = [hist EXCEPT !.state = "ok"]
    /\ UNCHANGED <<fnvars, corevars, now, vad, chunks, next_chunk_id, current_buffer, chunk_start_time,
                   total_samples_processed, tx, rx, queue, wchunk, results, fpc,
                   returned>>

\* a failed create_state() after which the worker enters its loop all the same
WorkerCreateStateErrContinue ==
    /\ wpc = "create"
    /\ wpc' = "recv"
    /\ hist' = [hist EXCEPT !.state = "failed"]
    /\ UNCHANGED <<fnvars, corevars, now, vad, chunks, next_chunk_id, current_buffer, chunk_start_time,
                   total_samples_processed, tx, rx, queue, wchunk, results, fpc,
                   returned>>

\* ctx.create_state() fails: the closure returns, which drops the Receiver
\* and with it whatever the channel holds
WorkerCreateStateErr ==
    /\ wpc = "create"
    /\ wpc' = "exited"
    /\ rx' = FALSE
    /\ queue' = <<>>
    /\ hist' = [hist EXCEPT !.state = "failed"]
    /\ UNCHANGED <<fnvars, corevars, now, vad, chunks, next_chunk_id, current_buffer, chunk_start_time,
                   total_samples_processed, tx, wchunk, results, fpc, returned>>

\* a receive that takes the newest chunk of the channel
WorkerRecvNewest ==
    /\ wpc = "recv"
    /\ queue # <<>>
    /\ wchunk' = Some(queue[Len(queue)])
    /\ queue' = SubSeq(queue, 1, Len(queue) - 1)
    /\ wpc' = "infer"
    /\ hist' = [hist EXCEPT !.log = Append(@, [ev |-> "start", id |-> queue[Len(queue)].id,
                                                outcome |-> "running"])]
    /\ UNCHANGED <<fnvars, corevars, now, vad, chunks, next_chunk_id, current_buffer, chunk_start_time,
                   total_samples_processed, tx, rx, results, fpc, returned>>

\* rx.recv() returns Ok(chunk): the oldest chunk of the channel
WorkerRecv ==
    /\ wpc = "recv"
    /\ queue # <<>>
    /\ wchunk' = Some(Head(queue))
    /\ queue' = Tail(queue)
    /\ wpc' = "infer"
    /\ hist' = [hist EXCEPT !.log = Append(@, [ev |-> "start", id |-> Head(queue).id,
                                                outcome |-> "running"])]
    /\ UNCHANGED <<fnvars, corevars, now, vad, chunks, next_chunk_id, current_buffer, chunk_start_time,
                   total_samples_processed, tx, rx, results, fpc, returned>>

\* a receive that fails as soon as the Sender was dropped, whatever the
\* channel still holds
WorkerRecvClosedEager ==
    /\ wpc = "recv"
    /\ ~tx
    /\ wpc' = "exited"
    /\ rx' = FALSE
    /\ queue' = <<>>
    /\ UNCHANGED <<fnvars, corevars, now, vad, chunks, next_chunk_id, current_buffer, chunk_start_time,
                   total_samples_processed, tx, wchunk, results, fpc, returned, hist>>

\* rx.recv() returns Err: the channel is empty and the Sender was dropped
WorkerRecvClosed ==
    /\ wpc = "recv"
    /\ queue = <<>>
    /\ ~tx
    /\ wpc' = "exited"
    /\ rx' = FALSE
    /\ UNCHANGED <<fnvars, corevars, now, vad, chunks, next_chunk_id, current_buffer, chunk_start_time,
                   total_samples_processed, tx, queue, wchunk, results, fpc,
                   returned, hist>>

\* a loop body that saves whatever text a successful inference left
WorkerSaveAlways(rs, chunk, r) ==
    IF r.ok
    THEN SortById(Append(rs, [id |-> chunk.id, text |-> filter_noise_text(r.text),
                              start_time |-> chunk.start_time,
                              end_time |-> chunk.start_time + chunk.duration]))
    ELSE rs

\* the body of the loop for the result r of transcribe_with_state
WorkerSave(rs, chunk, r) ==
    LET text == filter_noise_text(r.text)
    IN  IF r.ok /\ text # <<>>
        THEN SortById(Append(rs, [id |-> chunk.id, text |-> text,
                                  start_time |-> chunk.start_time,
                                  end_time |-> chunk.start_time + chunk.duration]))
        ELSE rs

\* what became of a chunk's inference (observation only)
Outcome(r) ==
    IF ~r.ok THEN "error"
    ELSE IF filter_noise_text(r.text) = <<>> THEN "empty" ELSE "text"

\* the line the loop hands to the logger for the result r of
\* transcribe_with_state: one for a saved result, one for text that the
\* filter emptied, and none when the inference returned Err (the
\* `if let Ok(result)` has no else branch)
LogLine(chunk, r) ==
    IF r.ok
    THEN IF filter_noise_text(r.text) # <<>>
         THEN Some([kind |-> "result", id |-> chunk.id])
         ELSE Some([kind |-> "no_speech", id |-> chunk.id])
    ELSE None

\* a worker that returns on an inference error
AfterInferenceStopOnError(r) == IF r.ok THEN "recv" ELSE "exited"

\* where the worker goes after the inference of one chunk: back to recv()
AfterInference(r) == "recv"

\* transcribe_with_state returns one of engine_results, which is filtered
\* and saved
WorkerInferWith(engine_results) ==
    /\ wpc = "infer"
    /\ \E r \in engine_results :
         /\ results' = WorkerSave(results, Unwrap(wchunk), r)
         /\ wpc' = AfterInference(r)
         /\ hist' = [hist EXCEPT
               !.log = Append(@, [ev |-> "end", id |-> Unwrap(wchunk).id,
                                  outcome |-> Outcome(r),
                                  line |-> LogLine(Unwrap(wchunk), r)]),
               !.outcome = [id \in DOMAIN @ \cup {Unwrap(wchunk).id} |->
                               IF id = Unwrap(wchunk).id THEN Outcome(r) ELSE @[id]]]
    /\ wchunk' = None
    /\ UNCHANGED <<fnvars, corevars, now, vad, chunks, next_chunk_id, current_buffer, chunk_start_time,
                   total_samples_processed, tx, rx, queue, fpc, returned>>

WorkerInfer == WorkerInferWith(InferenceResults)

(***************************************************************************)
(* ChunkProcessor::finish.                                                 *)
(***************************************************************************)
\* a finish() that sends whatever is left in the buffer, silence too
FinishFlushAlways ==
    /\ wpc # "none" /\ fpc = "idle"
    /\ LET flush == current_buffer # <<>>
           st == IF flush THEN create_and_send_chunk(Fields, SampleRate) ELSE Fields
       IN  /\ SetFields(st)
           /\ hist' = [hist EXCEPT
                 !.sent = IF Len(st.queue) > Len(queue)
                          THEN @ \cup {next_chunk_id} ELSE @,
                 !.final_dropped = IF flush THEN 0 ELSE NumSamples(current_buffer),
                 !.closed_with = st.queue]
    /\ tx' = FALSE
    /\ fpc' = "join"
    /\ UNCHANGED <<fnvars, corevars, now, vad, rx, wpc, wchunk, results, returned>>

\* the remaining buffer becomes a chunk if its RMS is above the noise
\* floor, then the Sender is dropped
FinishFlush ==
    /\ wpc # "none" /\ fpc = "idle"
    /\ LET flush == current_buffer # <<>> /\ RmsAbove(current_buffer, FinishNoiseFloor)
           st == IF flush THEN create_and_send_chunk(Fields, SampleRate) ELSE Fields
       IN  /\ SetFields(st)
           /\ hist' = [hist EXCEPT
                 !.sent = IF Len(st.queue) > Len(queue)
                          THEN @ \cup {next_chunk_id} ELSE @,
                 !.final_dropped = IF flush THEN 0 ELSE NumSamples(current_buffer),
                 !.closed_with = st.queue]
    /\ tx' = FALSE
    /\ fpc' = "join"
    /\ UNCHANGED <<fnvars, corevars, now, vad, rx, wpc, wchunk, results, returned>>

\* handle.join() returns once the worker has exited; the results are read
FinishJoin ==
    /\ fpc = "join"
    /\ wpc = "exited"
    /\ fpc' = "done"
    /\ returned' = results
    /\ UNCHANGED <<fnvars, corevars, now, vad, chunks, next_chunk_id, current_buffer, chunk_start_time,
                   total_samples_processed, tx, rx, queue, wpc, wchunk, results, hist>>

NextCP ==
    \/ StartWorker
    \/ Tick
    \/ ProcessAudio
    \/ WorkerCreateStateOk
    \/ WorkerCreateStateErr
    \/ WorkerRecv
    \/ WorkerRecvClosed
    \/ WorkerInfer
    \/ FinishFlush
    \/ FinishJoin

SpecCP == InitCP /\ [][NextCP]_vars

(***************************************************************************)
(* The segmentation of a longer session: one more call of process_audio,   *)
(* with an engine that recognises the same text in every chunk.            *)
(***************************************************************************)
SegInferenceResults == {[ok |-> TRUE, text |-> <<"h", "i">>]}

SegProcessAudio == ProcessAudioUpTo(MaxSegFrames)

SegWorkerInfer == WorkerInferWith(SegInferenceResults)

NextSeg ==
    \/ StartWorker
    \/ Tick
    \/ SegProcessAudio
    \/ WorkerCreateStateOk
    \/ WorkerCreateStateErr
    \/ WorkerRecv
    \/ WorkerRecvClosed
    \/ SegWorkerInfer
    \/ FinishFlush
    \/ FinishJoin

SpecSeg == InitCP /\ [][NextSeg]_vars

(***************************************************************************)
(* Observations on the history of a session.                               *)
(***************************************************************************)
LogIndexes(ev) == {k \in DOMAIN hist.log : hist.log[k].ev = ev}
StartedIds == {hist.log[k].id : k \in LogIndexes("start")}
DoneIds == DOMAIN hist.outcome
OutcomeOf(id) == IF id \in DoneIds THEN hist.outcome[id] ELSE "none"
ResultIndexes(id) == {k \in DOMAIN results : results[k].id = id}
IsSortedById(rs) == \A i, j \in DOMAIN rs : i < j => rs[i].id <= rs[j].id

RECURSIVE SumDurations(_)
SumDurations(cs) ==
    IF cs = <<>> THEN 0 ELSE Head(cs).duration + SumDurations(Tail(cs))

\* the audio discarded by the Skip decisions taken while next_chunk_id was id
RECURSIVE SkippedBefore(_, _)
SkippedBefore(skips, id) ==
    IF skips = <<>> THEN 0
    ELSE (IF Head(skips).before = id THEN DurationOf(Head(skips).n, SampleRate) ELSE 0)
         + SkippedBefore(Tail(skips), id)

RECURSIVE SkippedTotal(_)
SkippedTotal(skips) ==
    IF skips = <<>> THEN 0
    ELSE DurationOf(Head(skips).n, SampleRate) + SkippedTotal(Tail(skips))

(***************************************************************************)
(* C1.  At every point of a session, and in the value finish() returns,    *)
(* the result collection is sorted by ascending id.                        *)
(***************************************************************************)
C1_ResultsSortedById ==
    /\ IsSortedById(results)
    /\ fpc = "done" => IsSortedById(returned)

C1_Witness == fpc = "done" /\ Len(returned) >= 2

(***************************************************************************)
(* C2.  The worker runs inference in submission order: chunks are received *)
(* in ascending id, none is passed over, and when the inference of a chunk *)
(* starts the inference of every chunk enqueued with a smaller id has      *)
(* ended.                                                                  *)
(***************************************************************************)
C2_InferenceInSubmissionOrder ==
    \A k \in LogIndexes("start") :
        \A i \in hist.sent :
            i < hist.log[k].id =>
                \E e \in LogIndexes("end") : e < k /\ hist.log[e].id = i

C2_Witness ==
    /\ Cardinality(DoneIds) >= 2
    /\ \E k \in LogIndexes("start") : hist.log[k].id = 1 /\ Len(queue) >= 1

(***************************************************************************)
(* C3, as claimed.  finish() returns only after the worker has received    *)
(* and finished every chunk that was enqueued.                             *)
(***************************************************************************)
C3_FinishWaitsForEveryChunk ==
    fpc = "done" => hist.sent \subseteq DoneIds

(***************************************************************************)
(* C3, amended.  finish() reads the results only after the worker thread   *)
(* has ended, with no chunk in progress; and if the engine state was       *)
(* created, then by that time the worker has received and finished every   *)
(* chunk that was enqueued, those still queued when the Sender was dropped *)
(* included.                                                               *)
(***************************************************************************)
C3_FinishWaitsUnlessStateFailed ==
    fpc = "done" =>
        /\ wpc = "exited"
        /\ wchunk = None
        /\ returned = results
        /\ hist.state = "ok" => /\ hist.sent \subseteq DoneIds
                                /\ queue = <<>>

C3_Witness ==
    /\ fpc = "done"
    /\ hist.state = "ok"
    /\ Len(hist.closed_with) >= 2
    /\ hist.sent \subseteq DoneIds

(***************************************************************************)
(* C4, as claimed.  Of two chunks created one after the other, the later   *)
(* starts where the earlier ends.                                          *)
(***************************************************************************)
C4_ChunksTileTimeline ==
    \A k \in 1..(Len(chunks) - 1) :
        chunks[k].start_time + chunks[k].duration = chunks[k + 1].start_time

(***************************************************************************)
(* C4, amended.  Of two chunks created one after the other, the later      *)
(* starts where the earlier ends plus the duration of the audio that Skip  *)
(* decisions discarded between the two; the first chunk starts after the   *)
(* audio skipped before it.                                                *)
(***************************************************************************)
C4_ChunksTileUpToSkips ==
    /\ Len(chunks) >= 1 =>
           chunks[1].start_time = SkippedBefore(hist.skipped, chunks[1].id)
    /\ \A k \in 1..(Len(chunks) - 1) :
           chunks[k + 1].start_time =
               chunks[k].start_time + chunks[k].duration
                   + SkippedBefore(hist.skipped, chunks[k + 1].id)

C4_Witness ==
    /\ Len(chunks) >= 2
    /\ SkippedBefore(hist.skipped, chunks[2].id) > 0

(***************************************************************************)
(* C5, as claimed.  After finish() the durations of the chunks created add *)
(* up to the duration of all the audio processed.                          *)
(***************************************************************************)
C5_DurationsSumToTotal ==
    fpc = "done" =>
        SumDurations(chunks) = DurationOf(total_samples_processed, SampleRate)

(***************************************************************************)
(* C5, amended.  After finish() the durations of the chunks created, of    *)
(* the segments discarded by Skip decisions and of the final buffer that   *)
(* finish() discarded as silent add up to the duration of all the audio    *)
(* processed.                                                              *)
(***************************************************************************)
C5_DurationsAndDiscardsSumToTotal ==
    fpc = "done" =>
        SumDurations(chunks) + SkippedTotal(hist.skipped)
            + DurationOf(hist.final_dropped, SampleRate)
          = DurationOf(total_samples_processed, SampleRate)

C5_Witness ==
    /\ fpc = "done"
    /\ Len(chunks) >= 1
    /\ hist.skipped # <<>>
    /\ hist.final_dropped > 0

(***************************************************************************)
(* C8.  A chunk whose inference failed has no result, and the failure does *)
(* not stop the worker: the worker ends only when the engine state could   *)
(* not be created or when the Sender was dropped and the channel is empty, *)
(* so that by the time finish() returns every chunk enqueued after the     *)
(* failing one has been transcribed.                                       *)
(***************************************************************************)
C8_InferenceErrorIsLocal ==
    /\ \A id \in DoneIds : OutcomeOf(id) = "error" => ResultIndexes(id) = {}
    /\ wpc = "exited" => hist.state = "failed" \/ (~tx /\ queue = <<>>)
    /\ fpc = "done" =>
           \A i \in DoneIds, j \in hist.sent :
               OutcomeOf(i) = "error" /\ i < j => j \in DoneIds

C8_Witness ==
    \E i, j \in DoneIds :
        /\ i < j
        /\ OutcomeOf(i) = "error"
        /\ OutcomeOf(j) = "text"
        /\ ResultIndexes(j) # {}

(***************************************************************************)
(* C9.  When the engine state cannot be created the worker ends without    *)
(* receiving a chunk, nothing is ever stored in the result collection,     *)
(* process_audio and finish() still run to their end (the join of finish() *)
(* is not blocked), and finish() returns an empty collection.              *)
(***************************************************************************)
C9_StateFailureEndsQuietly ==
    hist.state = "failed" =>
        /\ wpc = "exited"
        /\ hist.log = <<>>
        /\ results = <<>>
        /\ (fpc = "idle" /\ hist.frames < MaxFrames) => ENABLED ProcessAudio
        /\ fpc = "idle" => ENABLED FinishFlush
        /\ fpc = "join" => ENABLED FinishJoin
        /\ fpc = "done" => returned = <<>>

C9_Witness ==
    /\ hist.state = "failed"
    /\ fpc = "done"
    /\ Len(chunks) >= 2
    /\ hist.sent # {}
    /\ chunks[Len(chunks)].id \notin hist.sent

(***************************************************************************)
(* C10.  The result collection holds exactly one ChunkResult for each      *)
(* chunk whose inference succeeded with a text that the noise filter left  *)
(* non-empty, and none for any other chunk.                                *)
(***************************************************************************)
C10_OneResultPerSpokenChunk ==
    /\ \A id \in 0..(next_chunk_id - 1) :
           Cardinality(ResultIndexes(id)) = IF OutcomeOf(id) = "text" THEN 1 ELSE 0
    /\ \A k \in DOMAIN results : results[k].id \in 0..(next_chunk_id - 1)

C10_Witness ==
    /\ fpc = "done"
    /\ \E a, b, c \in DoneIds :
           /\ OutcomeOf(a) = "text"
           /\ OutcomeOf(b) = "empty"
           /\ OutcomeOf(c) = "error"
    /\ Len(results) = 1

(***************************************************************************)
(* WhisperCore, AudioIO and Transcriber as threads over the shared fields  *)
(* (src/src/core.rs, src/src/core/audio_io.rs, src/src/core/transcriber.rs)*)
(*                                                                         *)
(* threads is the sequence of the threads spawned so far; a thread that    *)
(* has returned stays in it with pc "done", which is what a join waits     *)
(* for.  There are four kinds: "start" runs start_recording_internal,      *)
(* "stop" runs stop_recording_internal, "capture" is the thread spawned by *)
(* start_capture, together with the callbacks of its input stream, and     *)
(* "watchdog" is the thread spawned by start_processing.                   *)
(*                                                                         *)
(* The audio buffer holds blocks [n |-> 1, rms, gain, id, capture, seen];  *)
(* id, capture and seen are observations: the number of the block among    *)
(* the blocks appended so far (core.appended counts them), the start       *)
(* thread whose capture wrote the block, and the start thread that had     *)
(* last cleared the buffer when the callback that wrote the block began.   *)
(* session_started_at of a watchdog is an observation too: the time its    *)
(* start_processing call wrote to record_started_at.                       *)
(*                                                                         *)
(* The inference worker of a ChunkProcessor meets the other threads only   *)
(* in the channel and in the results that finish() reads after its join;   *)
(* here its run is taken in one piece at that join.                        *)
(***************************************************************************)
MaxToggles == 3
MaxCallbacks == 1
MaxBlocks == 2
MaxCoreNow == 3

ProcessInterval == 1       \* Duration::from_millis(100)

\* the values set_auto_stop_params is called with, in tenths of a second
AutoStopSilenceValues == {-1, 0, 1}
MaxRecordValues == {-1, 0, 2}

\* the level of the block a device callback delivers
BlockLevels == {0, 50}

StartThread ==
    [kind |-> "start", pc |-> "clear", session_id |-> 0, vad |-> "Normal",
     auto_stop_silence_secs |-> 0, max_record_secs |-> 0, started_at |-> 0]

StopThread == [kind |-> "stop", pc |-> "flag", handle |-> 0, pcm |-> <<>>]

CaptureThread(session_id, starter) ==
    [kind |-> "capture", pc |-> "select", session_id |-> session_id,
     starter |-> starter, cb |-> "idle", data |-> 0, seen |-> 0, failed |-> FALSE]

WatchdogThread(starter, auto_stop_silence_secs, max_record_secs) ==
    [kind |-> "watchdog", pc |-> "init", starter |-> starter, last_tick |-> 0,
     auto_stop_triggered |-> FALSE, global_silence_started |-> None,
     silence_threshold |-> 0,
     auto_stop_silence_secs |-> auto_stop_silence_secs,
     max_record_secs |-> max_record_secs,
     pcm |-> <<>>, fired |-> 0, fired_for |-> {}, fired_in_tick |-> FALSE,
     held_same_tick |-> FALSE, held_later_tick |-> FALSE, session_started_at |-> 0]

\* the watchdog threads
Watchdogs == {i \in DOMAIN threads : threads[i].kind = "watchdog"}

At(kind, pc) == {i \in DOMAIN threads : threads[i].kind = kind /\ threads[i].pc = pc}

\* ChunkProcessor::new followed by start_worker
NewProcessor(strategy) ==
    [vad |-> start_recording(new_with_strategy(SampleRate, strategy)),
     chunks |-> <<>>, next_chunk_id |-> 0, current_buffer |-> <<>>,
     chunk_start_time |-> 0, total_samples_processed |-> 0,
     queue |-> <<>>, tx |-> TRUE, rx |-> TRUE, fed |-> <<>>]

\* ChunkProcessor::process_audio(pcm, 16_000) on the processor p at time t
ProcessorProcessAudio(p, pcm, t) ==
    LET d == VadProcessAudio(p.vad, pcm, t)
        st == ProcessDecision(p, pcm, d.decision, SampleRate)
    IN  [st EXCEPT !.vad = d.vad, !.fed = @ \o pcm]

\* the worker's loop over the chunks of the channel, rs[k] the result of
\* the engine for the k-th of them
RECURSIVE WorkerRun(_, _, _)
WorkerRun(chunk_queue, rs, k) ==
    IF k = 0 THEN <<>>
    ELSE WorkerSave(WorkerRun(chunk_queue, rs, k - 1), chunk_queue[k], rs[k])

\* ChunkProcessor::finish: the processor after the flush
ProcessorFlush(p) ==
    IF p.current_buffer # <<>> /\ RmsAbove(p.current_buffer, FinishNoiseFloor)
    THEN [create_and_send_chunk(p, SampleRate) EXCEPT !.tx = FALSE]
    ELSE [p EXCEPT !.tx = FALSE]

(***************************************************************************)
(* WhisperCore::toggle_recording.  In the states Processing and            *)
(* PostProcessing the call writes a log line and changes nothing.          *)
(***************************************************************************)
toggle_recording ==
    /\ core.toggles < MaxToggles
    /\ core.state \in {"Idle", "Recording"}
    /\ IF core.state = "Idle"
       THEN /\ threads' = Append(threads, StartThread)
            /\ core' = [core EXCEPT !.state = "Recording", !.toggles = @ + 1]
       ELSE /\ threads' = Append(threads, StopThread)
            /\ core' = [core EXCEPT !.state = "Processing", !.toggles = @ + 1]
    /\ UNCHANGED <<fnvars, cpvars, procs>>

\* the wall clock advances by a tenth of a second
CoreTick ==
    /\ Watchdogs # {}
    /\ now < MaxCoreNow
    /\ now' = now + 1
    /\ UNCHANGED <<vad, chunks, next_chunk_id, current_buffer, chunk_start_time,
                   total_samples_processed, tx, rx, queue, wpc, wchunk, results,
                   fpc, returned, hist, corevars, fnvars>>

(***************************************************************************)
(* start_recording_internal: AudioIO::start_capture, then                  *)
(* Transcriber::start_processing.                                          *)
(***************************************************************************)
\* self.audio_buffer.lock().unwrap().clear()
StartCaptureClear ==
    \E i \in At("start", "clear") :
        /\ core' = [core EXCEPT !.audio_buffer = <<>>, !.cleared_by = i]
        /\ threads' = [threads EXCEPT ![i].pc = "flag"]
        /\ UNCHANGED <<fnvars, cpvars, procs>>

\* *self.stop_flag.lock().unwrap() = false
StartCaptureFlag ==
    \E i \in At("start", "flag") :
        /\ core' = [core EXCEPT !.stop_flag = FALSE]
        /\ threads' = [threads EXCEPT ![i].pc = "epoch"]
        /\ UNCHANGED <<fnvars, cpvars, procs>>

\* current_session.fetch_add(1) + 1 becomes the session id of the capture
\* thread, which is spawned
StartCaptureSpawn ==
    \E i \in At("start", "epoch") :
        LET session_id == core.current_session + 1
        IN  /\ core' = [core EXCEPT !.current_session = session_id]
            /\ threads' = Append([threads EXCEPT ![i].pc = "handle",
                                                 ![i].session_id = session_id],
                                 CaptureThread(session_id, i))
            /\ UNCHANGED <<fnvars, cpvars, procs>>

\* *self.recording_thread.lock().unwrap() = Some(handle)
StartCaptureStoreHandle ==
    \E i \in At("start", "handle") :
        /\ ~core.recording_thread_locked
        /\ \E c \in DOMAIN threads :
             /\ threads[c].kind = "capture" /\ threads[c].starter = i
             /\ core' = [core EXCEPT !.recording_thread = Some(c)]
        /\ threads' = [threads EXCEPT ![i].pc = "config"]
        /\ UNCHANGED <<fnvars, cpvars, procs>>

\* start_processing reads chunk_strategy, auto_stop_silence_secs and
\* max_record_secs
StartProcessingConfig ==
    \E i \in At("start", "config") :
        /\ threads' = [threads EXCEPT
               ![i].pc = "last_len",
               ![i].vad = core.chunk_strategy,
               ![i].auto_stop_silence_secs = core.auto_stop_silence_secs,
               ![i].max_record_secs = core.max_record_secs]
        /\ UNCHANGED <<fnvars, cpvars, core, procs>>

\* *self.last_processed_len.lock().unwrap() = 0
StartProcessingLastLen ==
    \E i \in At("start", "last_len") :
        /\ core' = [core EXCEPT !.last_processed_len = 0]
        /\ threads' = [threads EXCEPT ![i].pc = "started_at"]
        /\ UNCHANGED <<fnvars, cpvars, procs>>

\* *self.record_started_at.lock().unwrap() = Some(Instant::now())
StartProcessingStartedAt ==
    \E i \in At("start", "started_at") :
        /\ core' = [core EXCEPT !.record_started_at = Some(now)]
        /\ threads' = [threads EXCEPT ![i].pc = "processor", ![i].started_at = now]
        /\ UNCHANGED <<fnvars, cpvars, procs>>

\* a new ChunkProcessor with its worker is stored in the holder, and the
\* watchdog thread is spawned
StartProcessingSpawn ==
    \E i \in At("start", "processor") :
        /\ procs' = Append(procs, NewProcessor(threads[i].vad))
        /\ core' = [core EXCEPT !.processor = Some(Len(procs) + 1)]
        /\ threads' = Append([threads EXCEPT ![i].pc = "store"],
                             [WatchdogThread(i, threads[i].auto_stop_silence_secs,
                                             threads[i].max_record_secs)
                                 EXCEPT !.session_started_at = threads[i].started_at])
        /\ UNCHANGED <<fnvars, cpvars>>

\* *self.processing_thread.lock().unwrap() = Some(proc_thread): the
\* watchdog is the thread spawned last by this start thread
StartProcessingStoreHandle ==
    \E i \in At("start", "store") :
        /\ ~core.processing_thread_locked
        /\ \E w \in DOMAIN threads :
             /\ threads[w].kind = "watchdog" /\ threads[w].starter = i
             /\ core' = [core EXCEPT !.processing_thread = Some(w)]
        /\ threads' = [threads EXCEPT ![i].pc = "done"]
        /\ UNCHANGED <<fnvars, cpvars, procs>>

(***************************************************************************)
(* The capture thread spawned by start_capture, and the callbacks of its   *)
(* input stream.                                                           *)
(***************************************************************************)
\* the input device and its default configuration are found
CaptureSelectOk ==
    \E i \in At("capture", "select") :
        /\ threads' = [threads EXCEPT ![i].pc = "wait"]
        /\ UNCHANGED <<fnvars, cpvars, core, procs>>

\* no input device, or no default configuration: the thread returns
CaptureSelectErr ==
    \E i \in At("capture", "select") :
        /\ threads' = [threads EXCEPT ![i].pc = "done", ![i].failed = TRUE]
        /\ UNCHANGED <<fnvars, cpvars, core, procs>>

\* the wait for ACTIVE_CORE_INPUT_STREAMS to reach 0 ends, because it did
\* or because two seconds have passed (the model's clock does not count
\* them: the wait may give up at any time)
CaptureWait ==
    \E i \in At("capture", "wait") :
        /\ threads' = [threads EXCEPT ![i].pc = "build"]
        /\ UNCHANGED <<fnvars, cpvars, core, procs>>

\* build_input_stream returns Ok: the counter of active streams goes up
CaptureBuildOk ==
    \E i \in At("capture", "build") :
        /\ core' = [core EXCEPT !.active_streams = @ + 1]
        /\ threads' = [threads EXCEPT ![i].pc = "play"]
        /\ UNCHANGED <<fnvars, cpvars, procs>>

\* build_input_stream returns Err: the thread returns
CaptureBuildErr ==
    \E i \in At("capture", "build") :
        /\ threads' = [threads EXCEPT ![i].pc = "done", ![i].failed = TRUE]
        /\ UNCHANGED <<fnvars, cpvars, core, procs>>

\* stream.play() returns Ok: from now on the device calls back
CapturePlayOk ==
    \E i \in At("capture", "play") :
        /\ threads' = [threads EXCEPT ![i].pc = "loop"]
        /\ UNCHANGED <<fnvars, cpvars, core, procs>>

\* stream.play() returns Err: the thread returns without touching the
\* counter of active streams
CapturePlayErr ==
    \E i \in At("capture", "play") :
        /\ threads' = [threads EXCEPT ![i].pc = "done", ![i].failed = TRUE]
        /\ UNCHANGED <<fnvars, cpvars, core, procs>>

\* while !*stop_flag.lock().unwrap() { sleep }: the loop ends
CaptureLoopExit ==
    \E i \in At("capture", "loop") :
        /\ core.stop_flag
        /\ threads' = [threads EXCEPT ![i].pc = "drop"]
        /\ UNCHANGED <<fnvars, cpvars, core, procs>>

\* drop(stream), which lets a callback in progress return first, and the
\* counter of active streams goes down
CaptureDrop ==
    \E i \in At("capture", "drop") :
        /\ threads[i].cb = "idle"
        /\ core' = [core EXCEPT !.active_streams = @ - 1]
        /\ threads' = [threads EXCEPT ![i].pc = "done"]
        /\ UNCHANGED <<fnvars, cpvars, procs>>

\* the streams that are playing
Playing == At("capture", "loop") \cup At("capture", "drop")

\* the guard of the callback: the captured session id against the live one
EpochIsLive(session_id) == core.current_session = session_id

\* the device calls back with one block of samples; the callback returns
\* at once if the epoch has moved on
CallbackCheckUpTo(max_callbacks) ==
    \E i \in Playing :
        /\ threads[i].cb = "idle"
        /\ core.callbacks < max_callbacks
        /\ core' = [core EXCEPT !.callbacks = @ + 1]
        /\ IF EpochIsLive(threads[i].session_id)
           THEN \E rms \in BlockLevels :
                    threads' = [threads EXCEPT ![i].cb = "checked",
                                               ![i].data = rms,
                                               ![i].seen = core.cleared_by]
           ELSE UNCHANGED threads
        /\ UNCHANGED <<fnvars, cpvars, procs>>

CallbackCheck == CallbackCheckUpTo(MaxCallbacks)

\* every sample is multiplied by the gain g, in hundredths
ApplyGain(level, g) == IF g # 100 THEN (level * g) \div 100 ELSE level

\* the callback, past its guard, has converted the samples, multiplies
\* them by the gain it loads and appends them: buffer_clone.lock() ...
\* extend_from_slice
CallbackAppend ==
    \E i \in Playing :
        /\ threads[i].cb = "checked"
        /\ core' = [core EXCEPT
               !.appended = @ + 1,
               !.audio_buffer =
                   Append(@, [n |-> 1, rms |-> ApplyGain(threads[i].data, core.input_gain),
                              gain |-> core.input_gain,
                              id |-> core.appended + 1,
                              capture |-> threads[i].starter,
                              seen |-> threads[i].seen])]
        /\ threads' = [threads EXCEPT ![i].cb = "idle", ![i].data = 0,
                                      ![i].seen = 0]
        /\ UNCHANGED <<fnvars, cpvars, procs>>

(***************************************************************************)
(* The watchdog thread spawned by start_processing.                        *)
(***************************************************************************)
\* the silence threshold of the auto-stop timer
WatchdogSilenceThreshold(strategy) ==
    IF strategy = "Aggressive" THEN SilenceThresholdAggressive
    ELSE SilenceThresholdNormal

\* the locals of the thread
WatchdogInit ==
    \E i \in At("watchdog", "init") :
        /\ threads' = [threads EXCEPT
               ![i].pc = "loop",
               ![i].last_tick = now,
               ![i].silence_threshold = WatchdogSilenceThreshold(core.chunk_strategy)]
        /\ UNCHANGED <<fnvars, cpvars, core, procs>>

\* the head of the loop: the stop flag ends the thread
WatchdogStopped ==
    \E i \in At("watchdog", "loop") :
        /\ core.stop_flag
        /\ threads' = [threads EXCEPT ![i].pc = "done", ![i].last_tick = 0,
                                      ![i].global_silence_started = None]
        /\ UNCHANGED <<fnvars, cpvars, core, procs>>

\* the head of the loop: the next tick is due
WatchdogDue ==
    \E i \in At("watchdog", "loop") :
        /\ ~core.stop_flag
        /\ now - threads[i].last_tick >= ProcessInterval
        /\ threads' = [threads EXCEPT ![i].pc = "drain"]
        /\ UNCHANGED <<fnvars, cpvars, core, procs>>

\* a tick that checks the maximum recording time only when samples arrived
WatchdogDrainSkipsCheck ==
    \E i \in At("watchdog", "drain") :
        LET new_len == Len(core.audio_buffer)
            last_len == core.last_processed_len
        IN  IF new_len > last_len
            THEN /\ core' = [core EXCEPT !.last_processed_len = new_len]
                 /\ threads' = [threads EXCEPT
                        ![i].pc = "process",
                        ![i].pcm = SubSeq(core.audio_buffer, last_len + 1, new_len)]
                 /\ UNCHANGED <<fnvars, cpvars, procs>>
            ELSE /\ threads' = [threads EXCEPT ![i].pc = "loop", ![i].last_tick = now]
                 /\ UNCHANGED <<fnvars, cpvars, core, procs>>

\* the samples appended since last_processed_len are copied
WatchdogDrain ==
    \E i \in At("watchdog", "drain") :
        LET new_len == Len(core.audio_buffer)
            last_len == core.last_processed_len
        IN  IF new_len > last_len
            THEN /\ core' = [core EXCEPT !.last_processed_len = new_len]
                 /\ threads' = [threads EXCEPT
                        ![i].pc = "process",
                        ![i].pcm = SubSeq(core.audio_buffer, last_len + 1, new_len)]
                 /\ UNCHANGED <<fnvars, cpvars, procs>>
            ELSE /\ threads' = [threads EXCEPT ![i].pc = "max"]
                 /\ UNCHANGED <<fnvars, cpvars, core, procs>>

\* the watchdog w sets its one-shot flag and the stop flag, and calls
\* on_auto_stop, which spawns a thread running stop_recording_internal
Fire(i, w) ==
    /\ threads' = Append([threads EXCEPT ![i] =
                              [w EXCEPT !.auto_stop_triggered = TRUE,
                                        !.fired = @ + 1,
                                        !.fired_in_tick = TRUE]],
                         StopThread)
    /\ core' = [core EXCEPT !.stop_flag = TRUE]

\* a silence timer that runs whatever the configured duration is
SilenceGuardAnyDuration(w) == ~w.auto_stop_triggered

\* the silence timer runs while the one-shot flag is down and the
\* configured duration is above 0
SilenceGuard(w) == ~w.auto_stop_triggered /\ w.auto_stop_silence_secs > 0

\* the drained samples go to the processor of the holder; then the
\* session-wide silence timer
WatchdogProcess ==
    \E i \in At("watchdog", "process") :
        LET t == threads[i]
            silent == RmsBelow(t.pcm, t.silence_threshold)
            started == IF silent
                       THEN (IF t.global_silence_started = None
                             THEN Some(now) ELSE t.global_silence_started)
                       ELSE None
            w == [t EXCEPT !.pc = "max", !.pcm = <<>>]
        IN  IF core.processor = None
            THEN /\ threads' = [threads EXCEPT ![i] = w]
                 /\ UNCHANGED <<fnvars, cpvars, core, procs>>
            ELSE /\ procs' = [procs EXCEPT ![Unwrap(core.processor)] =
                                  ProcessorProcessAudio(@, t.pcm, now)]
                 /\ IF SilenceGuard(t)
                    THEN IF started # None
                            /\ now - Unwrap(started) >= t.auto_stop_silence_secs
                         THEN Fire(i, [w EXCEPT !.global_silence_started = started,
                                                !.fired_for = @ \cup {"silence"}])
                         ELSE /\ threads' = [threads EXCEPT ![i] =
                                     [w EXCEPT !.global_silence_started = started]]
                              /\ UNCHANGED core
                    ELSE /\ threads' = [threads EXCEPT ![i] = w]
                         /\ UNCHANGED core
                 /\ UNCHANGED <<fnvars, cpvars>>

\* a check of the maximum duration that does not look at the one-shot flag
MaxDurationGuardNoOneShot(w) == w.max_record_secs > 0

\* the check of the maximum duration runs while the one-shot flag is down
MaxDurationGuard(w) == ~w.auto_stop_triggered /\ w.max_record_secs > 0

\* the check of the maximum recording time, and the end of the tick
WatchdogMaxCheck ==
    \E i \in At("watchdog", "max") :
        LET t == threads[i]
            elapsed == IF core.record_started_at = None THEN 0
                       ELSE now - Unwrap(core.record_started_at)
            reached == t.max_record_secs > 0 /\ elapsed >= t.max_record_secs
            held == t.auto_stop_triggered /\ reached
            w == [t EXCEPT !.pc = "loop", !.last_tick = now,
                           !.fired_in_tick = FALSE,
                           !.held_same_tick = @ \/ (held /\ t.fired_in_tick),
                           !.held_later_tick = @ \/ (held /\ ~t.fired_in_tick)]
        IN  /\ IF MaxDurationGuard(t) /\ elapsed >= t.max_record_secs
               THEN Fire(i, [w EXCEPT !.fired_for = @ \cup {"max"}])
               ELSE /\ threads' = [threads EXCEPT ![i] = w]
                    /\ UNCHANGED core
            /\ UNCHANGED <<fnvars, cpvars, procs>>

(***************************************************************************)
(* stop_recording_internal: AudioIO::stop_capture, the join of the         *)
(* watchdog, Transcriber::finalize_and_output, and the state Idle.         *)
(***************************************************************************)
\* *self.stop_flag.lock().unwrap() = true
StopCaptureFlag ==
    \E i \in At("stop", "flag") :
        /\ core' = [core EXCEPT !.stop_flag = TRUE]
        /\ threads' = [threads EXCEPT ![i].pc = "epoch"]
        /\ UNCHANGED <<fnvars, cpvars, procs>>

\* self.current_session.fetch_add(1)
StopCaptureEpoch ==
    \E i \in At("stop", "epoch") :
        /\ core' = [core EXCEPT !.current_session = @ + 1]
        /\ threads' = [threads EXCEPT ![i].pc = "take_recording"]
        /\ UNCHANGED <<fnvars, cpvars, procs>>

\* self.recording_thread.lock().unwrap().take(): with a handle, the lock
\* is kept until the join has returned
StopCaptureTake ==
    \E i \in At("stop", "take_recording") :
        /\ ~core.recording_thread_locked
        /\ IF core.recording_thread = None
           THEN /\ threads' = [threads EXCEPT ![i].pc = "take_processing"]
                /\ UNCHANGED core
           ELSE /\ threads' = [threads EXCEPT
                       ![i].pc = "join_recording",
                       ![i].handle = Unwrap(core.recording_thread)]
                /\ core' = [core EXCEPT !.recording_thread = None,
                                        !.recording_thread_locked = TRUE]
        /\ UNCHANGED <<fnvars, cpvars, procs>>

\* h.join() returns when the capture thread has returned
StopCaptureJoin ==
    \E i \in At("stop", "join_recording") :
        /\ threads[threads[i].handle].pc = "done"
        /\ core' = [core EXCEPT !.recording_thread_locked = FALSE]
        /\ threads' = [threads EXCEPT ![i].pc = "take_processing"]
        /\ UNCHANGED <<fnvars, cpvars, procs>>

\* self.processing_thread.lock().unwrap().take()
StopTakeProcessing ==
    \E i \in At("stop", "take_processing") :
        /\ ~core.processing_thread_locked
        /\ IF core.processing_thread = None
           THEN /\ threads' = [threads EXCEPT ![i].pc = "slice"]
                /\ UNCHANGED core
           ELSE /\ threads' = [threads EXCEPT
                       ![i].pc = "join_processing",
                       ![i].handle = Unwrap(core.processing_thread)]
                /\ core' = [core EXCEPT !.processing_thread = None,
                                        !.processing_thread_locked = TRUE]
        /\ UNCHANGED <<fnvars, cpvars, procs>>

\* handle.join() returns when the watchdog has returned
StopJoinProcessing ==
    \E i \in At("stop", "join_processing") :
        /\ threads[threads[i].handle].pc = "done"
        /\ core' = [core EXCEPT !.processing_thread_locked = FALSE]
        /\ threads' = [threads EXCEPT ![i].pc = "slice"]
        /\ UNCHANGED <<fnvars, cpvars, procs>>

\* finalize_and_output: the samples after last_processed_len are copied
FinalizeSlice ==
    \E i \in At("stop", "slice") :
        LET len == Len(core.audio_buffer)
            last_len == core.last_processed_len
        IN  IF len > last_len
            THEN /\ core' = [core EXCEPT !.last_processed_len = len]
                 /\ threads' = [threads EXCEPT
                        ![i].pc = "final_process",
                        ![i].pcm = SubSeq(core.audio_buffer, last_len + 1, len)]
                 /\ UNCHANGED <<fnvars, cpvars, procs>>
            ELSE /\ threads' = [threads EXCEPT ![i].pc = "finish"]
                 /\ UNCHANGED <<fnvars, cpvars, core, procs>>

\* the final slice goes to the processor of the holder, if there is one
FinalizeProcess ==
    \E i \in At("stop", "final_process") :
        /\ procs' = IF core.processor = None THEN procs
                    ELSE [procs EXCEPT ![Unwrap(core.processor)] =
                              ProcessorProcessAudio(@, threads[i].pcm, now)]
        /\ threads' = [threads EXCEPT ![i].pc = "finish", ![i].pcm = <<>>]
        /\ UNCHANGED <<fnvars, cpvars, core>>

\* self.processor.lock().unwrap().take() and finish(): the flush, the run
\* of the worker over the channel, the join.  Without results the function
\* returns here.
FinalizeFinish ==
    \E i \in At("stop", "finish") :
        IF core.processor = None
        THEN /\ threads' = [threads EXCEPT ![i].pc = "idle"]
             /\ UNCHANGED <<fnvars, cpvars, core, procs>>
        ELSE LET k == Unwrap(core.processor)
                 p == ProcessorFlush(procs[k])
             IN  /\ core' = [core EXCEPT !.processor = None]
                 /\ procs' = [procs EXCEPT ![k] = [p EXCEPT !.queue = <<>>,
                                                            !.rx = FALSE]]
                 /\ \E state_ok \in BOOLEAN :
                    \E rs \in [1..Len(p.queue) -> InferenceResults] :
                        LET chunk_results ==
                                IF state_ok THEN WorkerRun(p.queue, rs, Len(p.queue))
                                ELSE <<>>
                        IN  threads' = [threads EXCEPT ![i].pc =
                                IF chunk_results = <<>> THEN "idle" ELSE "post"]
                 /\ UNCHANGED <<fnvars, cpvars>>

\* PostProcessEngine::process: with the LLM enabled the state becomes
\* PostProcessing for the time of the request
FinalizePostProcess ==
    \E i \in At("stop", "post") :
        /\ \E enabled \in BOOLEAN :
             core' = [core EXCEPT !.state =
                          IF enabled THEN "PostProcessing" ELSE @]
        /\ threads' = [threads EXCEPT ![i].pc = "metrics"]
        /\ UNCHANGED <<fnvars, cpvars, procs>>

\* self.record_started_at.lock().unwrap().take(), for the metrics
FinalizeMetrics ==
    \E i \in At("stop", "metrics") :
        /\ core' = [core EXCEPT !.record_started_at = None]
        /\ threads' = [threads EXCEPT ![i].pc = "finalize_idle"]
        /\ UNCHANGED <<fnvars, cpvars, procs>>

\* the last statement of finalize_and_output: the state Idle
FinalizeIdle ==
    \E i \in At("stop", "finalize_idle") :
        /\ core' = [core EXCEPT !.state = "Idle"]
        /\ threads' = [threads EXCEPT ![i].pc = "idle"]
        /\ UNCHANGED <<fnvars, cpvars, procs>>

\* the last statement of stop_recording_internal: the state Idle
StopSetIdle ==
    \E i \in At("stop", "idle") :
        /\ core' = [core EXCEPT !.state = "Idle"]
        /\ threads' = [threads EXCEPT ![i].pc = "done"]
        /\ UNCHANGED <<fnvars, cpvars, procs>>

\* the state after construction
InitCore ==
    /\ now = 0
    /\ vad = new_with_strategy(SampleRate, "Normal")
    /\ chunks = <<>>
    /\ next_chunk_id = 0
    /\ current_buffer = <<>>
    /\ chunk_start_time = 0
    /\ total_samples_processed = 0
    /\ tx = TRUE
    /\ rx = TRUE
    /\ queue = <<>>
    /\ wpc = "none"
    /\ wchunk = None
    /\ results = <<>>
    /\ fpc = "idle"
    /\ returned = <<>>
    /\ hist = [frames |-> 0, log |-> <<>>, sent |-> {}, skipped |-> <<>>,
               final_dropped |-> 0, closed_with |-> <<>>, state |-> "pending",
               outcome |-> [id \in {} |-> "none"], decision |-> "none"]
    /\ core = CoreNew
    /\ threads = <<>>
    /\ procs = <<>>
    /\ call = None

NextCore ==
    \/ toggle_recording
    \/ StartCaptureClear
    \/ StartCaptureFlag
    \/ StartCaptureSpawn
    \/ StartCaptureStoreHandle
    \/ StartProcessingConfig
    \/ StartProcessingLastLen
    \/ StartProcessingStartedAt
    \/ StartProcessingSpawn
    \/ StartProcessingStoreHandle
    \/ CaptureSelectOk
    \/ CaptureSelectErr
    \/ CaptureWait
    \/ CaptureBuildOk
    \/ CaptureBuildErr
    \/ CapturePlayOk
    \/ CapturePlayErr
    \/ CaptureLoopExit
    \/ CaptureDrop
    \/ CallbackCheck
    \/ CallbackAppend
    \/ WatchdogInit
    \/ WatchdogStopped
    \/ StopCaptureFlag
    \/ StopCaptureEpoch
    \/ StopCaptureTake
    \/ StopCaptureJoin
    \/ StopTakeProcessing
    \/ StopJoinProcessing
    \/ FinalizeSlice
    \/ FinalizeProcess
    \/ FinalizeFinish
    \/ FinalizePostProcess
    \/ FinalizeMetrics
    \/ FinalizeIdle
    \/ StopSetIdle

SpecCore == InitCore /\ [][NextCore]_vars

(***************************************************************************)
(* One recording session of the Transcriber on its own: start_processing   *)
(* and the watchdog, against an AudioIO that may do anything at any time.  *)
(* The audio                                                               *)
(* arrives in blocks of any level, the stop flag is set by stop_capture    *)
(* and cleared by start_capture, and the clock advances.  The thread that  *)
(* on_auto_stop spawns is recorded in threads and takes no step here.      *)
(***************************************************************************)
\* Transcriber::set_auto_stop_params: negative values become 0
set_auto_stop_params(c, silence_secs, max_secs) ==
    [c EXCEPT !.auto_stop_silence_secs = IF silence_secs > 0 THEN silence_secs ELSE 0,
              !.max_record_secs = IF max_secs > 0 THEN max_secs ELSE 0,
              !.auto_stop_passed = Some([silence_secs |-> silence_secs,
                                         max_secs |-> max_secs])]

\* the caller applies the settings and starts the session, as the hotkey
\* handler does (src/src/gui/app.rs): a thread enters start_processing
WatchStartProcessing ==
    /\ threads = <<>>
    /\ \E silence_secs \in AutoStopSilenceValues, max_secs \in MaxRecordValues :
         core' = set_auto_stop_params(core, silence_secs, max_secs)
    /\ threads' = Append(threads, [StartThread EXCEPT !.pc = "config"])
    /\ UNCHANGED <<fnvars, cpvars, procs>>

\* a device callback appends a block to the audio buffer
WatchAudio ==
    /\ core.callbacks < MaxBlocks
    /\ \E rms \in BlockLevels :
         core' = [core EXCEPT
             !.callbacks = @ + 1,
             !.appended = @ + 1,
             !.audio_buffer = Append(@, [n |-> 1, rms |-> rms,
                                         gain |-> core.input_gain,
                                         id |-> core.appended + 1,
                                         capture |-> 0, seen |-> 0])]
    /\ UNCHANGED <<fnvars, cpvars, threads, procs>>

\* stop_capture sets the stop flag, start_capture clears it
WatchStopFlag ==
    /\ \E flag \in BOOLEAN : core' = [core EXCEPT !.stop_flag = flag]
    /\ UNCHANGED <<fnvars, cpvars, threads, procs>>

NextWatch ==
    \/ WatchStartProcessing
    \/ WatchAudio
    \/ WatchStopFlag
    \/ CoreTick
    \/ StartProcessingConfig
    \/ StartProcessingLastLen
    \/ StartProcessingStartedAt
    \/ StartProcessingSpawn
    \/ StartProcessingStoreHandle
    \/ WatchdogInit
    \/ WatchdogStopped
    \/ WatchdogDue
    \/ WatchdogDrain
    \/ WatchdogProcess
    \/ WatchdogMaxCheck

SpecWatch == InitCore /\ [][NextWatch]_vars

(***************************************************************************)
(* C6, as claimed.  No callback of an earlier capture writes samples into  *)
(* the buffer of a later session.  A later session's buffer begins when    *)
(* its start_capture call clears the audio buffer; the claim is read in    *)
(* favour of the code: only a callback that began after that clearing      *)
(* counts, so that a callback held up between its guard and its write      *)
(* does not.  Every block that such a callback wrote into the buffer was   *)
(* written by the capture of the start_capture call that last cleared it.  *)
(***************************************************************************)
C6_NoStaleSamples ==
    \A k \in DOMAIN core.audio_buffer :
        core.audio_buffer[k].seen = core.cleared_by =>
            core.audio_buffer[k].capture = core.cleared_by

(***************************************************************************)
(* C7.  A watchdog thread, of which start_processing spawns one for each   *)
(* recording session, invokes the auto-stop callback at most once, also    *)
(* when the maximum duration is reached in a tick in which, or after       *)
(* which, the watchdog has already fired.                                  *)
(***************************************************************************)
C7_AutoStopAtMostOnce ==
    \A i \in Watchdogs : threads[i].fired <= 1

C7_Witness ==
    \E i \in Watchdogs :
        /\ threads[i].fired = 1
        /\ threads[i].held_same_tick
        /\ threads[i].held_later_tick

(***************************************************************************)
(* The VoiceActivityDetector on its own: process_audio called with frames  *)
(* of any length and level while the wall clock advances between calls.    *)
(* hist records, for the last call, what the caller saw and how long the   *)
(* input had been without a loud frame.                                    *)
(***************************************************************************)
MaxVadFrames == 5
MaxVadNow == 20

VadFrameLens == {5, 10, 300}
VadFrameLevels == {0, 5, 50}
VadFrames == [n : VadFrameLens, rms : VadFrameLevels]
VadClockStep == 5

InitVad ==
    /\ now = 0
    /\ \E strategy \in VadStrategy : vad = new_with_strategy(SampleRate, strategy)
    /\ chunks = <<>>
    /\ next_chunk_id = 0
    /\ current_buffer = <<>>
    /\ chunk_start_time = 0
    /\ total_samples_processed = 0
    /\ tx = TRUE
    /\ rx = TRUE
    /\ queue = <<>>
    /\ wpc = "none"
    /\ wchunk = None
    /\ results = <<>>
    /\ fpc = "idle"
    /\ returned = <<>>
    /\ hist = [frames |-> 0, quiet_since |-> None,
               last |-> [decision |-> "none", loud |-> FALSE, quiet_for |-> 0,
                         required |-> 0, chunk_duration |-> 0,
                         silent |-> FALSE, silence_for |-> 0,
                         speech_frames |-> 0, total_frames |-> 0]]
    /\ core = CoreNew
    /\ threads = <<>>
    /\ procs = <<>>
    /\ call = None

\* the wall clock advances, half a second at a time
VadClock ==
    /\ now < MaxVadNow
    /\ now' = now + VadClockStep
    /\ UNCHANGED <<fnvars, corevars, vad, chunks, next_chunk_id, current_buffer, chunk_start_time,
                   total_samples_processed, tx, rx, queue, wpc, wchunk, results,
                   fpc, returned, hist>>

\* VoiceActivityDetector::process_audio(samples)
VadFrame ==
    /\ hist.frames < MaxVadFrames
    /\ \E f \in VadFrames :
         LET samples == <<f>>
             d == VadProcessAudio(vad, samples, now)
             loud == RmsAbove(samples, vad.silence_threshold)
             silent == RmsBelow(samples, vad.silence_threshold)
             quiet_since == IF loud THEN None
                            ELSE IF hist.quiet_since = None THEN Some(now)
                            ELSE hist.quiet_since
             chunk_duration == DurationOf(vad.chunk_samples + NumSamples(samples),
                                          vad.sample_rate)
         IN  /\ vad' = d.vad
             /\ hist' = [frames |-> hist.frames + 1,
                         quiet_since |-> quiet_since,
                         last |-> [decision |-> d.decision,
                                   loud |-> loud,
                                   quiet_for |-> IF quiet_since = None THEN 0
                                                 ELSE now - Unwrap(quiet_since),
                                   required |-> get_dynamic_silence_threshold(vad, chunk_duration),
                                   chunk_duration |-> chunk_duration,
                                   silent |-> silent,
                                   silence_for |-> IF silent /\ vad.silence_started # None
                                                   THEN now - Unwrap(vad.silence_started)
                                                   ELSE 0,
                                   speech_frames |-> vad.speech_frames
                                                       + (IF loud THEN 1 ELSE 0),
                                   total_frames |-> vad.total_frames + 1]]
    /\ UNCHANGED <<fnvars, corevars, now, chunks, next_chunk_id, current_buffer, chunk_start_time,
                   total_samples_processed, tx, rx, queue, wpc, wchunk, results,
                   fpc, returned>>

NextVad ==
    \/ VadClock
    \/ VadFrame

SpecVad == InitVad /\ [][NextVad]_vars

(***************************************************************************)
(* C11.  A loud frame resets the VAD silence timer to zero, and the VAD    *)
(* emits Split only when the continuous quiet duration since the last      *)
(* loud frame meets the required silence duration.                         *)
(***************************************************************************)
C11_SplitOnlyAfterQuiet ==
    /\ hist.last.loud => vad.silence_started = None
    /\ hist.last.decision = "Split" => hist.last.quiet_for >= hist.last.required

\* C11, as the source has it: a loud frame resets the silence timer, and a
\* Split is emitted only when the quiet duration since the last loud frame
\* meets the required silence duration or the chunk has reached the
\* maximum chunk duration.
C11_SplitOnlyAfterQuietOrAtMax ==
    /\ hist.last.loud => vad.silence_started = None
    /\ hist.last.decision = "Split" =>
          \/ hist.last.quiet_for >= hist.last.required
          \/ hist.last.chunk_duration >= vad.max_chunk_duration

\* a Split after quiet, loud, quiet: the timer was reset in between
C11_Witness ==
    /\ hist.last.decision = "Split"
    /\ hist.last.chunk_duration < vad.max_chunk_duration
    /\ hist.last.quiet_for >= hist.last.required
    /\ hist.last.quiet_for < now
    /\ hist.frames >= 3

(***************************************************************************)
(* A session fed in real time: process_audio is called with one frame of   *)
(* 100 ms every 100 ms, first loud frames (RMS 0.05) and then quiet ones   *)
(* (RMS 0.0001, which the model's thousandths round to 0: the source       *)
(* compares a level only with 0.005 and 0.007), under the Normal strategy. *)
(* hist counts the frames fed and records each Split with the VAD's        *)
(* speech_frames and total_frames at that moment.                          *)
(***************************************************************************)
MaxRtFrames == 75

RtLoud == [n |-> 1, rms |-> 50]
RtQuiet == [n |-> 1, rms |-> 0]

InitRt ==
    /\ now = 0
    /\ vad = new_with_strategy(SampleRate, "Normal")
    /\ chunks = <<>>
    /\ next_chunk_id = 0
    /\ current_buffer = <<>>
    /\ chunk_start_time = 0
    /\ total_samples_processed = 0
    /\ tx = TRUE
    /\ rx = TRUE
    /\ queue = <<>>
    /\ wpc = "none"
    /\ wchunk = None
    /\ results = <<>>
    /\ fpc = "idle"
    /\ returned = <<>>
    /\ hist = [frames |-> 0, log |-> <<>>, sent |-> {}, skipped |-> <<>>,
               final_dropped |-> 0, closed_with |-> <<>>, state |-> "pending",
               outcome |-> [id \in {} |-> "none"], decision |-> "none",
               loud |-> 0, quiet |-> 0, splits |-> <<>>]
    /\ core = CoreNew
    /\ threads = <<>>
    /\ procs = <<>>
    /\ call = None

\* ChunkProcessor::process_audio(frame, 16_000), 100 ms after the last call
RtProcessAudio ==
    /\ wpc # "none" /\ fpc = "idle"
    /\ hist.frames < MaxRtFrames
    /\ \E f \in {RtLoud, RtQuiet} :
         /\ f = RtLoud => hist.quiet = 0
         /\ LET samples == <<f>>
                d == VadProcessAudio(vad, samples, now)
                st == ProcessDecision(Fields, samples, d.decision, SampleRate)
                speech == RmsAbove(samples, vad.silence_threshold)
            IN  /\ vad' = d.vad
                /\ SetFields(st)
                /\ hist' = [hist EXCEPT
                      !.frames = @ + 1,
                      !.decision = d.decision,
                      !.loud = IF f = RtLoud THEN @ + 1 ELSE @,
                      !.quiet = IF f = RtQuiet THEN @ + 1 ELSE @,
                      !.sent = IF Len(st.queue) > Len(queue)
                               THEN @ \cup {next_chunk_id} ELSE @,
                      !.skipped = IF d.decision = "Skip"
                                  THEN Append(@, [before |-> next_chunk_id,
                                                  n |-> NumSamples(current_buffer \o samples)])
                                  ELSE @,
                      !.splits = IF d.decision = "Split"
                                 THEN Append(@, [speech_frames |-> vad.speech_frames
                                                     + (IF speech THEN 1 ELSE 0),
                                                 total_frames |-> vad.total_frames + 1])
                                 ELSE @]
    /\ now' = now + 1
    /\ UNCHANGED <<fnvars, corevars, tx, rx, wpc, wchunk, results, fpc, returned>>

NextRt ==
    \/ StartWorker
    \/ RtProcessAudio
    \/ WorkerCreateStateOk
    \/ WorkerCreateStateErr
    \/ WorkerRecv
    \/ WorkerRecvClosed
    \/ SegWorkerInfer
    \/ FinishFlush
    \/ FinishJoin

SpecRt == InitRt /\ [][NextRt]_vars

\* 5 seconds of loud audio followed by 2.5 seconds of silence have been fed
RtFiveLoudThenQuiet == hist.loud = 50 /\ hist.quiet = 25

(***************************************************************************)
(* C12.  Fed in real time as 100 ms frames under the Normal strategy, 5    *)
(* seconds of loud audio followed by 2.5 seconds of silence produce        *)
(* exactly one Split decision, with a speech ratio of about 1.0, and the   *)
(* single resulting chunk and ChunkResult cover the time range from 0.0 to *)
(* about 5.0 seconds.                                                      *)
(***************************************************************************)
C12_OneSplitCoversFiveSeconds ==
    RtFiveLoudThenQuiet =>
        /\ Len(hist.splits) = 1
        /\ 10 * hist.splits[1].speech_frames >= 9 * hist.splits[1].total_frames
        /\ Len(chunks) = 1
        /\ chunks[1].start_time = 0
        /\ chunks[1].duration \in 48..52
        /\ \A k \in DOMAIN results :
              results[k].start_time = 0 /\ results[k].end_time \in 48..52

\* C12, as the source has it: the same input produces exactly one Split
\* decision, taken on the 71st frame when the silence has lasted 2.0
\* seconds, with a speech ratio of 50/71, and the single resulting chunk and
\* ChunkResult cover the time range from 0.0 to 7.1 seconds, the silence
\* that triggered the split included.
C12_OneSplitCoversSevenSeconds ==
    RtFiveLoudThenQuiet =>
        /\ hist.splits = <<[speech_frames |-> 50, total_frames |-> 71]>>
        /\ Len(chunks) = 1
        /\ chunks[1].start_time = 0
        /\ chunks[1].duration = 71
        /\ \A k \in DOMAIN results :
              results[k].start_time = 0 /\ results[k].end_time = 71
        /\ fpc = "done" /\ hist.state = "ok" => Len(returned) = 1

C12_Witness ==
    /\ RtFiveLoudThenQuiet
    /\ fpc = "done"
    /\ Len(returned) = 1
    /\ returned[1].end_time = 71


(***************************************************************************)
(* Functions on text, called on their own.  call holds the function's      *)
(* name, its arguments, the progress of its loop and the value returned.    *)
(* str::len and the offsets of a &str count UTF-8 bytes: a character of    *)
(* the model is one byte long, except Note (U+266A), which is three.       *)
(***************************************************************************)
MaxCombine == 2

ByteLen(c) == IF c = Note THEN 3 ELSE 1

\* str::len
Bytes(s) == Len(s) + Cardinality({k \in DOMAIN s : ByteLen(s[k]) = 3}) * 2

\* str::ends_with
EndsWith(s, p) == Len(p) <= Len(s) /\ SubSeq(s, Len(s) - Len(p) + 1, Len(s)) = p

\* a test for the text at the end of the accumulator only
ContainsAtEnd(s, p) == EndsWith(s, p)

\* str::contains
Contains(s, p) == \E i \in 0..(Len(s) - Len(p)) : SubSeq(s, i + 1, i + Len(p)) = p

Min2(a, b) == IF a <= b THEN a ELSE b

MaxOverlapBytes == 64

\* an overlap search without the limit of 64 bytes
max_k_unlimited(acc, next_trim) == Min2(Bytes(acc), Bytes(next_trim))

\* max_k: the overlap searched is at most 64 bytes long
max_k(acc, next_trim) == Min2(Min2(Bytes(acc), Bytes(next_trim)), MaxOverlapBytes)

\* a search that takes the longest cut within max_k, whether or not the
\* accumulator ends with it
best_k_unchecked(acc, next_trim, k) ==
    LET cuts == {j \in 0..k : j = 0 \/ Bytes(SubSeq(next_trim, 1, j)) <= max_k(acc, next_trim)}
    IN  CHOOSE j \in cuts : \A l \in cuts : l <= j

\* for &i in cuts.iter().rev(): the cuts are the byte offsets of the
\* character boundaries of next_trim, its length included; k counts the
\* characters before the cut.  The value is best_k, in characters.
RECURSIVE best_k(_, _, _)
best_k(acc, next_trim, k) ==
    IF k = 0 THEN 0
    ELSE LET i == Bytes(SubSeq(next_trim, 1, k))
         IN  IF i = 0 \/ i > max_k(acc, next_trim) THEN best_k(acc, next_trim, k - 1)
             ELSE IF EndsWith(acc, SubSeq(next_trim, 1, k)) THEN k
             ELSE best_k(acc, next_trim, k - 1)

\* a merge that puts a space between the accumulator and the text
merge_with_space(acc, next) ==
    LET next_trim == Trim(next)
    IN  IF next_trim = <<>> THEN acc
        ELSE IF Contains(acc, next_trim) THEN acc
        ELSE IF acc = <<>> THEN next_trim
        ELSE acc \o <<" ">> \o SubSeq(next_trim, best_k(acc, next_trim, Len(next_trim)) + 1,
                                      Len(next_trim))

merge_with_overlap(acc, next) ==
    LET next_trim == Trim(next)
    IN  IF next_trim = <<>> THEN acc
        ELSE IF Contains(acc, next_trim) THEN acc
        ELSE acc \o SubSeq(next_trim, best_k(acc, next_trim, Len(next_trim)) + 1,
                           Len(next_trim))

RECURSIVE Repeat(_, _)
Repeat(s, n) == IF n = 0 THEN <<>> ELSE s \o Repeat(s, n - 1)

\* texts of ChunkResults: the examples, texts with surrounding whitespace,
\* and texts whose overlap is longer than 64 bytes
TxtHelloWorld == <<"h", "e", "l", "l", "o", " ", "w", "o", "r", "l", "d">>
TxtHelloWor == <<"h", "e", "l", "l", "o", " ", "w", "o", "r">>
TxtWorldFoo == <<"w", "o", "r", "l", "d", " ", "f", "o", "o">>
TxtHelloWorldFoo == <<"h", "e", "l", "l", "o", " ", "w", "o", "r", "l", "d", " ", "f", "o", "o">>
TxtAbcDef == <<"a", "b", "c", " ", "d", "e", "f">>
TxtDef == <<"d", "e", "f">>
TxtAbc == <<"a", "b", "c">>
TxtHello == <<"H", "e", "l", "l", "o">>
TxtWorld == <<"w", "o", "r", "l", "d">>
TxtHelloworld == <<"H", "e", "l", "l", "o", "w", "o", "r", "l", "d">>
TxtLongAb == Repeat(<<"a", "b">>, 33)
TxtLongNotes == Repeat(<<Note>>, 22)

CombineTexts ==
    { TxtHelloWorld, TxtHelloWor, TxtWorldFoo, TxtAbcDef, TxtDef, TxtAbc,
      TxtHello, TxtWorld,
      <<>>, <<" ">>, <<" ">> \o TxtDef \o <<" ">>,
      TxtLongAb, TxtLongAb \o <<"z">>, TxtLongNotes, TxtLongNotes \o <<"x">> }

\* the arguments of combine_results: up to MaxCombine results
CombineResults ==
    UNION { [1..n -> [text : CombineTexts]] : n \in 1..MaxCombine }

CombineCalls ==
    { [fn |-> "combine_results", results |-> rs, i |-> 0, acc |-> <<>>,
       prev |-> <<>>, ret |-> None] : rs \in CombineResults }

\* combine_results: one pass of `for r in results.iter()`
CombineStep ==
    /\ call.fn = "combine_results"
    /\ call.i < Len(call.results)
    /\ LET t == Trim(call.results[call.i + 1].text)
       IN  call' = [call EXCEPT !.i = @ + 1,
                                !.prev = call.acc,
                                !.acc = IF t = <<>> THEN @ ELSE merge_with_overlap(@, t)]
    /\ UNCHANGED <<cpvars, corevars>>

\* combine_results returns acc
CombineReturn ==
    /\ call.fn = "combine_results"
    /\ call.i = Len(call.results)
    /\ call.ret = None
    /\ call' = [call EXCEPT !.ret = Some(call.acc)]
    /\ UNCHANGED <<cpvars, corevars>>

\* texts handed to filter_noise_text: the examples, texts without a marker,
\* a marker twice, and markers that enclose another marker
TxtMusicSpace == <<"(", "m", "u", "s", "i", "c", ")", " ">>
TxtHelloMusicWorld == <<"H", "e", "l", "l", "o", ",", " ", "(", "m", "u", "s", "i", "c", ")", " ", "w", "o", "r", "l", "d">>
TxtHelloWorldOneSpace == <<"H", "e", "l", "l", "o", ",", " ", "w", "o", "r", "l", "d">>
TxtHelloWorldTwoSpaces == <<"H", "e", "l", "l", "o", ",", " ", " ", "w", "o", "r", "l", "d">>
TxtSoundAroundMusic == <<"(", "s", "o", "(", "m", "u", "s", "i", "c", ")", "u", "n", "d", ")">>
TxtMusicAroundSound == <<"(", "m", "u", "(", "s", "o", "u", "n", "d", ")", "s", "i", "c", ")">>
TxtMusicOnly == <<"(", "m", "u", "s", "i", "c", ")">>

FilterTexts ==
    { TxtMusicSpace, TxtHelloMusicWorld, TxtSoundAroundMusic, TxtMusicAroundSound,
      <<"h", "i">>, <<",", " ", ".">>, <<"(", "m", "u", "s", "i", "c", ")", " ", "h", "i", " ", "(", "m", "u", "s", "i", "c", ")">>, <<Note, "l", "a", Note>>, <<"[", "l", "a", "u", "g", "h", "]", "o", "k">>, <<" ", "h", "i", " ">> }

FilterCalls == { [fn |-> "filter_noise_text", text |-> t, ret |-> None] : t \in FilterTexts }

\* filter_noise_text(text)
FilterNoise ==
    /\ call.fn = "filter_noise_text"
    /\ call.ret = None
    /\ call' = [call EXCEPT !.ret = Some(filter_noise_text(call.text))]
    /\ UNCHANGED <<cpvars, corevars>>

(***************************************************************************)
(* The dictionary (src/src/dictionary.rs).  An entry has a canonical text, *)
(* aliases and include terms; a pair is an alias with the canonical text   *)
(* that replaces it.  The offsets of a match count bytes from 0; the texts *)
(* and aliases here are ASCII, so that an offset is also a number of       *)
(* characters.  A range is start, end (exclusive) and the replacement.     *)
(***************************************************************************)
\* str::to_lowercase, on the upper-case letters of the texts in use
LowerCase == ("D" :> "d") @@ ("E" :> "e") @@ ("V" :> "v")
to_lowercase(s) ==
    [k \in DOMAIN s |-> IF s[k] \in DOMAIN LowerCase THEN LowerCase[s[k]] ELSE s[k]]

\* the entry applies: no include term, or one of them occurs in the context
Applicable(entry, ctx_lower) ==
    \/ entry.include = <<>>
    \/ \E k \in DOMAIN entry.include :
           /\ entry.include[k] # <<>>
           /\ Contains(ctx_lower, to_lowercase(entry.include[k]))

\* the pairs of one entry: its aliases that are not empty
RECURSIVE PairsOf(_, _)
PairsOf(aliases, canonical) ==
    IF aliases = <<>> THEN <<>>
    ELSE (IF Head(aliases) # <<>>
          THEN <<[alias |-> Head(aliases), canon |-> canonical]>> ELSE <<>>)
         \o PairsOf(Tail(aliases), canonical)

\* the pairs of the applicable entries, in the order of the dictionary
RECURSIVE Flatten(_, _)
Flatten(dict, ctx_lower) ==
    IF dict = <<>> THEN <<>>
    ELSE (IF Applicable(Head(dict), ctx_lower)
          THEN PairsOf(Head(dict).aliases, Head(dict).canonical) ELSE <<>>)
         \o Flatten(Tail(dict), ctx_lower)

\* pairs.sort_by(|(a1, _), (a2, _)| a2.len().cmp(&a1.len())): a stable sort,
\* the longer alias first
RECURSIVE InsertByAliasLen(_, _)
InsertByAliasLen(sorted, p) ==
    IF sorted = <<>> THEN <<p>>
    ELSE IF Bytes(Head(sorted).alias) >= Bytes(p.alias)
         THEN <<Head(sorted)>> \o InsertByAliasLen(Tail(sorted), p)
         ELSE <<p>> \o sorted

RECURSIVE SortByAliasLen(_, _)
SortByAliasLen(sorted, pairs) ==
    IF pairs = <<>> THEN sorted
    ELSE SortByAliasLen(InsertByAliasLen(sorted, Head(pairs)), Tail(pairs))

flatten_sorted_with_context(dict, context_text) ==
    SortByAliasLen(<<>>, Flatten(dict, to_lowercase(context_text)))

\* str::match_indices: the starts of the matches of alias in text, found
\* from left to right, each search beginning where the last match ended
RECURSIVE match_indices_from(_, _, _)
match_indices_from(text, alias, p) ==
    IF p + Len(alias) > Len(text) THEN <<>>
    ELSE IF SubSeq(text, p + 1, p + Len(alias)) = alias
         THEN <<p>> \o match_indices_from(text, alias, p + Len(alias))
         ELSE match_indices_from(text, alias, p + 1)

match_indices(text, alias) == match_indices_from(text, alias, 0)

\* a test that lets every match through
OverlapsNoRange(ranges, start, end) == FALSE

\* ranges.iter().any(|&(s, e, _)| start < e && s < end)
OverlapsARange(ranges, start, end) ==
    \E k \in DOMAIN ranges : start < ranges[k].end /\ ranges[k].start < end

\* the inner loop of apply_pairs: the matches of one alias that overlap no
\* range collected so far are pushed
RECURSIVE PushMatches(_, _, _, _)
PushMatches(ranges, starts, alias, canon) ==
    IF starts = <<>> THEN ranges
    ELSE LET start == Head(starts)
             end == start + Len(alias)
         IN  IF OverlapsARange(ranges, start, end)
             THEN PushMatches(ranges, Tail(starts), alias, canon)
             ELSE PushMatches(Append(ranges, [start |-> start, end |-> end,
                                              canon |-> canon]),
                              Tail(starts), alias, canon)

\* ranges.sort_by_key(|r| r.0)
RECURSIVE InsertByStart(_, _)
InsertByStart(sorted, r) ==
    IF sorted = <<>> THEN <<r>>
    ELSE IF Head(sorted).start <= r.start
         THEN <<Head(sorted)>> \o InsertByStart(Tail(sorted), r)
         ELSE <<r>> \o sorted

RECURSIVE SortByStart(_, _)
SortByStart(sorted, ranges) ==
    IF ranges = <<>> THEN sorted
    ELSE SortByStart(InsertByStart(sorted, Head(ranges)), Tail(ranges))

\* the output: the text between the ranges, and the replacement of each
RECURSIVE Rebuild(_, _, _)
Rebuild(text, ranges, last) ==
    IF ranges = <<>> THEN SubSeq(text, last + 1, Len(text))
    ELSE SubSeq(text, last + 1, Head(ranges).start) \o Head(ranges).canon
         \o Rebuild(text, Tail(ranges), Head(ranges).end)

\* the texts, dictionaries and lists of pairs apply_pairs is called with:
\* the examples of the tests, aliases that overlap one another, an alias
\* that occurs in its own replacement, an empty alias, an include term
Txt12And1 == <<"1", "2", " ", "1">>
TxtFoobarFoo == <<"f", "o", "o", "b", "a", "r", " ", "f", "o", "o">>
Txt1One == <<"1", " ", "o", "n", "e">>
TxtXY == <<"X", " ", "Y">>

ApplyTexts ==
    { Txt12And1, TxtFoobarFoo, <<"a", "b", "c", "d", "e", "f">>, <<"x", "a", "a", "a">>, <<>>,
      <<"f", "o", "o", " ", "d", "e", "v">>, <<"a", "a", "a">> }

DictNumbers == <<[canonical |-> <<"1">>, aliases |-> <<<<"1", "2">>>>, include |-> <<>>],
                 [canonical |-> <<"o", "n", "e">>, aliases |-> <<<<"1">>>>, include |-> <<>>]>>
PairsFoobarFoo == <<[alias |-> <<"f", "o", "o", "b", "a", "r">>, canon |-> <<"X">>], [alias |-> <<"f", "o", "o">>, canon |-> <<"Y">>]>>

Dictionaries ==
    { DictNumbers,
      <<[canonical |-> <<"Y">>, aliases |-> <<<<"f", "o", "o">>>>, include |-> <<>>],
        [canonical |-> <<"X">>, aliases |-> <<<<"f", "o", "o", "b", "a", "r">>>>, include |-> <<>>]>>,
      <<[canonical |-> <<"Z">>, aliases |-> <<<<"e", "f">>>>, include |-> <<>>],
        [canonical |-> <<"X">>, aliases |-> <<<<"a", "b", "c", "d">>>>, include |-> <<>>],
        [canonical |-> <<"Y">>, aliases |-> <<<<"c", "d", "e", "f">>>>, include |-> <<>>]>>,
      <<[canonical |-> <<"Q">>, aliases |-> <<<<"x", "a">>>>, include |-> <<>>],
        [canonical |-> <<"B">>, aliases |-> <<<<"a", "a">>>>, include |-> <<>>]>>,
      <<[canonical |-> <<"R", "u", "s", "t">>, aliases |-> <<<<"f", "o", "o">>, <<>>>>, include |-> <<<<>>, <<"D", "E", "V">>>>]>>,
      <<[canonical |-> <<"a", "a">>, aliases |-> <<<<"a">>>>, include |-> <<>>]>> }

PairLists ==
    { <<>>, PairsFoobarFoo,
      <<[alias |-> <<"f", "o", "o">>, canon |-> <<"Y">>], [alias |-> <<"f", "o", "o", "b", "a", "r">>, canon |-> <<"X">>]>>,
      <<[alias |-> <<>>, canon |-> <<"E">>], [alias |-> <<"1">>, canon |-> <<"o", "n", "e">>]>> }

\* the lists of pairs: those given, and those
\* flatten_sorted_with_context makes of a dictionary for the text
PairsFor(t) ==
    PairLists \cup { flatten_sorted_with_context(d, t) : d \in Dictionaries }

ApplyCalls ==
    UNION { { [fn |-> "apply_pairs", text |-> t, pairs |-> ps, i |-> 0,
               ranges |-> <<>>, ret |-> None] : ps \in PairsFor(t) } :
            t \in ApplyTexts }

\* apply_pairs: one pass of `for (alias, canon) in pairs.iter()`
ApplyPairsStep ==
    /\ call.fn = "apply_pairs"
    /\ call.ret = None
    /\ call.text # <<>>
    /\ call.i < Len(call.pairs)
    /\ LET p == call.pairs[call.i + 1]
       IN  call' = [call EXCEPT
               !.i = @ + 1,
               !.ranges = IF p.alias = <<>> THEN @
                          ELSE PushMatches(@, match_indices(call.text, p.alias),
                                           p.alias, p.canon)]
    /\ UNCHANGED <<cpvars, corevars>>

\* apply_pairs returns: the text as it is when the pairs or the text are
\* empty or no range was collected, or else the text rebuilt
ApplyPairsReturn ==
    /\ call.fn = "apply_pairs"
    /\ call.ret = None
    /\ call.pairs = <<>> \/ call.text = <<>> \/ call.i = Len(call.pairs)
    /\ call' = [call EXCEPT !.ret =
           Some(IF call.ranges = <<>> THEN call.text
                ELSE Rebuild(call.text, SortByStart(<<>>, call.ranges), 0))]
    /\ UNCHANGED <<cpvars, corevars>>

TextCalls == CombineCalls \cup FilterCalls \cup ApplyCalls

InitText ==
    /\ now = 0
    /\ vad = new_with_strategy(SampleRate, "Normal")
    /\ chunks = <<>>
    /\ next_chunk_id = 0
    /\ current_buffer = <<>>
    /\ chunk_start_time = 0
    /\ total_samples_processed = 0
    /\ tx = TRUE
    /\ rx = TRUE
    /\ queue = <<>>
    /\ wpc = "none"
    /\ wchunk = None
    /\ results = <<>>
    /\ fpc = "idle"
    /\ returned = <<>>
    /\ hist = <<>>
    /\ core = CoreNew
    /\ threads = <<>>
    /\ procs = <<>>
    /\ call \in TextCalls

NextText ==
    \/ CombineStep
    \/ CombineReturn
    \/ FilterNoise
    \/ ApplyPairsStep
    \/ ApplyPairsReturn

SpecText == InitText /\ [][NextText]_vars

\* the texts of the results combine_results was called with
CombineArgs == [k \in DOMAIN call.results |-> call.results[k].text]

\* the length of the longest prefix of t, of at most 64 bytes, that is a
\* suffix of acc
LongestOverlap(acc, t) ==
    CHOOSE k \in 0..Len(t) :
        /\ Bytes(SubSeq(t, 1, k)) <= 64 /\ EndsWith(acc, SubSeq(t, 1, k))
        /\ \A j \in (k + 1)..Len(t) :
              ~(Bytes(SubSeq(t, 1, j)) <= 64 /\ EndsWith(acc, SubSeq(t, 1, j)))

\* p occurs in s
OccursIn(p, s) ==
    \E a, b \in 0..Len(s) : a <= b /\ b - a = Len(p) /\ SubSeq(s, a + 1, b) = p

\* the text passed in the last pass of the loop, trimmed
LastText == Trim(call.results[call.i].text)

AppendedAfterOverlap ==
    call.acc = call.prev \o SubSeq(LastText, LongestOverlap(call.prev, LastText) + 1,
                                   Len(LastText))

CombineExamples ==
    call.ret # None =>
        /\ CombineArgs = <<TxtHelloWorld>> => Unwrap(call.ret) = TxtHelloWorld
        /\ CombineArgs = <<TxtHelloWor, TxtWorldFoo>> => Unwrap(call.ret) = TxtHelloWorldFoo

(***************************************************************************)
(* C13.  combine_results appends each chunk's trimmed text to the          *)
(* accumulator after removing the longest prefix of that text, of at most  *)
(* 64 bytes and cut at a character boundary, that equals a suffix of the   *)
(* accumulator; "hello world" alone yields "hello world", and "hello wor"  *)
(* followed by "world foo" yields "hello world foo".                       *)
(***************************************************************************)
C13_AppendsAfterLongestOverlap ==
    call.fn = "combine_results" =>
        /\ call.i > 0 => AppendedAfterOverlap
        /\ CombineExamples

\* C13, as the source has it: the same, for each chunk whose trimmed text
\* does not already occur in the accumulator.
C13_AppendsNewTextAfterLongestOverlap ==
    call.fn = "combine_results" =>
        /\ call.i > 0 /\ ~OccursIn(LastText, call.prev) => AppendedAfterOverlap
        /\ CombineExamples

\* an overlap of 66 bytes, of which 63 or 64 are removed
C13_Witness ==
    /\ call.fn = "combine_results"
    /\ call.i = 2
    /\ Bytes(call.prev) > 64
    /\ ~OccursIn(LastText, call.prev)
    /\ LongestOverlap(call.prev, LastText) > 0
    /\ Bytes(call.acc) = Bytes(call.prev) + Bytes(LastText) - 63

(***************************************************************************)
(* C14.  When a chunk's trimmed text already occurs verbatim anywhere in   *)
(* the accumulator, or is empty or whitespace-only, combine_results leaves *)
(* the accumulator unchanged; "abc def" followed by "def" yields           *)
(* "abc def".                                                              *)
(***************************************************************************)
C14_DuplicateOrEmptyIsSkipped ==
    call.fn = "combine_results" =>
        /\ call.i > 0 /\ (LastText = <<>> \/ OccursIn(LastText, call.prev)) =>
              call.acc = call.prev
        /\ call.ret # None /\ CombineArgs = <<TxtAbcDef, TxtDef>> =>
              Unwrap(call.ret) = TxtAbcDef

\* a text found inside the accumulator, not at its end, was skipped
C14_Witness ==
    /\ call.fn = "combine_results"
    /\ call.i = 2
    /\ LastText # <<>>
    /\ OccursIn(LastText, call.prev)
    /\ ~EndsWith(call.prev, LastText)
    /\ call.acc = call.prev

\* the positions of text that lie within an occurrence of a noise marker
MarkedPositions(text) ==
    { i \in DOMAIN text :
        \E k \in DOMAIN noise_patterns : \E a \in 0..Len(text) :
            /\ a < i /\ i <= a + Len(noise_patterns[k])
            /\ a + Len(noise_patterns[k]) <= Len(text)
            /\ SubSeq(text, a + 1, a + Len(noise_patterns[k])) = noise_patterns[k] }

\* text without the positions in marked, from position i on
RECURSIVE Unmarked(_, _, _)
Unmarked(text, marked, i) ==
    IF i > Len(text) THEN <<>>
    ELSE (IF i \in marked THEN <<>> ELSE <<text[i]>>) \o Unmarked(text, marked, i + 1)

\* the rest of text once its noise markers are stripped
RestOf(text) == Unmarked(text, MarkedPositions(text), 1)

\* the result is the rest of the text, trimmed, or empty when the rest is
\* only punctuation and whitespace
KeepsRestOf(text, ret) ==
    IF is_punct_or_space_only(Trim(RestOf(text))) THEN ret = <<>>
    ELSE ret = Trim(RestOf(text))

(***************************************************************************)
(* C15.  The noise filter strips each fixed noise marker and keeps the     *)
(* rest of the text: "(music) " yields an empty result and                 *)
(* "Hello, (music) world" yields "Hello, world".                           *)
(***************************************************************************)
C15_StripsMarkersKeepsRest ==
    call.fn = "filter_noise_text" /\ call.ret # None =>
        /\ KeepsRestOf(call.text, Unwrap(call.ret))
        /\ call.text = TxtMusicSpace => Unwrap(call.ret) = <<>>
        /\ call.text = TxtHelloMusicWorld => Unwrap(call.ret) = TxtHelloWorldOneSpace

\* C15, as the source has it: the noise filter strips the fixed noise
\* markers one after another in the order of its list, each from the text
\* the earlier removals left, and keeps the rest of the text, trimmed, or
\* nothing when the rest is only punctuation and whitespace: "(music) "
\* yields an empty result and "Hello, (music) world" yields "Hello,  world",
\* with both of the spaces that surrounded the marker.  Where no marker
\* encloses another the rest is the text outside the markers; "(sound)"
\* formed around a "(music)" is stripped too, "(music)" formed around a
\* "(sound)" is kept.
C15_StripsMarkersInListOrder ==
    call.fn = "filter_noise_text" /\ call.ret # None =>
        /\ MarkedPositions(RestOf(call.text)) = {} =>
              KeepsRestOf(call.text, Unwrap(call.ret))
        /\ call.text = TxtMusicSpace => Unwrap(call.ret) = <<>>
        /\ call.text = TxtHelloMusicWorld => Unwrap(call.ret) = TxtHelloWorldTwoSpaces
        /\ call.text = TxtSoundAroundMusic => Unwrap(call.ret) = <<>>
        /\ call.text = TxtMusicAroundSound => Unwrap(call.ret) = TxtMusicOnly

\* a marker was stripped from the middle of a text and the rest was kept
C15_Witness ==
    /\ call.fn = "filter_noise_text"
    /\ call.ret # None
    /\ call.text = TxtHelloMusicWorld
    /\ Unwrap(call.ret) = RestOf(call.text)
    /\ Len(Unwrap(call.ret)) = Len(call.text) - 7

\* a step of finish() up to the drop of the Sender
FinishStep == fpc = "idle" /\ fpc' = "join"

\* the remaining buffer is not empty and its RMS exceeds 0.005
FinalBufferAudible == current_buffer # <<>> /\ RmsAbove(current_buffer, 5)

\* the chunk finish() makes of the remaining buffer
FinalChunk ==
    [id |-> next_chunk_id, samples |-> current_buffer, start_time |-> chunk_start_time,
     duration |-> DurationOf(NumSamples(current_buffer), SampleRate)]

(***************************************************************************)
(* C16.  finish() enqueues the remaining buffered audio as one final chunk *)
(* if and only if the buffer is non-empty and its RMS exceeds the noise    *)
(* floor (0.005); otherwise it creates no final chunk.                     *)
(***************************************************************************)
C16_FinalChunkIffAudible ==
    [][FinishStep =>
          IF FinalBufferAudible
          THEN queue' = Append(queue, FinalChunk) /\ chunks' = Append(chunks, FinalChunk)
          ELSE queue' = queue /\ chunks' = chunks]_vars

\* C16, as the source has it: finish() creates one final chunk of the
\* remaining buffered audio if and only if the buffer is non-empty and its
\* RMS exceeds the noise floor, and sends it to the worker; the chunk is
\* enqueued unless the worker has exited because create_state() failed (the
\* send then fails and its error is ignored).  Otherwise finish() creates no
\* final chunk.
C16_FinalChunkIffAudibleSentIfWorkerLives ==
    [][FinishStep =>
          IF FinalBufferAudible
          THEN /\ chunks' = Append(chunks, FinalChunk)
               /\ queue' = IF rx THEN Append(queue, FinalChunk) ELSE queue
          ELSE queue' = queue /\ chunks' = chunks]_vars

\* finish() has made the only chunk of the session, of one loud frame, and
\* enqueued it
C16_Witness ==
    /\ fpc # "idle"
    /\ Len(chunks) = 1
    /\ chunks[1].samples = <<[n |-> 30, rms |-> 50]>>
    /\ hist.sent = {0}
    /\ hist.final_dropped = 0

(***************************************************************************)
(* Sessions one after the other: toggle_recording is called only when the  *)
(* start or stop thread of the call before has returned.                   *)
(***************************************************************************)
ToggleWhenSettled ==
    /\ \A i \in DOMAIN threads : threads[i].kind \in {"start", "stop"} => threads[i].pc = "done"
    /\ toggle_recording

NextSessions ==
    \/ ToggleWhenSettled
    \/ StartCaptureClear
    \/ StartCaptureFlag
    \/ StartCaptureSpawn
    \/ StartCaptureStoreHandle
    \/ StartProcessingConfig
    \/ StartProcessingLastLen
    \/ StartProcessingStartedAt
    \/ StartProcessingSpawn
    \/ StartProcessingStoreHandle
    \/ CaptureSelectOk
    \/ CaptureSelectErr
    \/ CaptureWait
    \/ CaptureBuildOk
    \/ CaptureBuildErr
    \/ CapturePlayOk
    \/ CapturePlayErr
    \/ CaptureLoopExit
    \/ CaptureDrop
    \/ CallbackCheck
    \/ CallbackAppend
    \/ WatchdogInit
    \/ WatchdogStopped
    \/ StopCaptureFlag
    \/ StopCaptureEpoch
    \/ StopCaptureTake
    \/ StopCaptureJoin
    \/ StopTakeProcessing
    \/ StopJoinProcessing
    \/ FinalizeSlice
    \/ FinalizeProcess
    \/ FinalizeFinish
    \/ FinalizePostProcess
    \/ FinalizeMetrics
    \/ FinalizeIdle
    \/ StopSetIdle

SpecSessions == InitCore /\ [][NextSessions]_vars

\* the capture threads, and the number of the session of capture thread i
Captures == {i \in DOMAIN threads : threads[i].kind = "capture"}
SessionOf(i) == Cardinality({j \in Captures : j <= i})

\* the capture threads that hold an input stream
StreamHolders == At("capture", "play") \cup At("capture", "loop") \cup At("capture", "drop")

\* the session of a failed capture has produced no chunk
FailedCaptureNoChunks ==
    \A i \in Captures :
        threads[i].failed /\ SessionOf(i) \in DOMAIN procs =>
            procs[SessionOf(i)].chunks = <<>>

\* once the stop thread has returned the recording state is Idle
StoppedIsIdle ==
    (\A i \in DOMAIN threads : threads[i].kind \in {"start", "stop"} => threads[i].pc = "done")
        => core.state \in {"Idle", "Recording"}

\* a capture thread waits for a previous input stream only while another
\* capture thread holds one
WaitsOnlyForOpenStream ==
    \A i \in At("capture", "wait") : core.active_streams > 0 => StreamHolders # {}

(***************************************************************************)
(* C17.  When a capture attempt fails (no input device, or the input       *)
(* stream cannot be built or started), the session produces no chunks;     *)
(* stopping that session returns the recording state to Idle, and a later  *)
(* toggle_recording starts a new session that captures normally.           *)
(***************************************************************************)
C17_FailedCaptureIsHarmless ==
    /\ FailedCaptureNoChunks
    /\ StoppedIsIdle
    /\ WaitsOnlyForOpenStream


(***************************************************************************)
(* The input gain.  AudioIO keeps it as the bits of an f32 in an atomic;   *)
(* here it is a number of hundredths.  set_input_gain is called by the     *)
(* settings of the GUI, which clamp the percentage they hold, and is a     *)
(* public method that any caller may pass any value.                       *)
(***************************************************************************)
\* the values set_input_gain is called with, in hundredths
InputGainValues == {-50, 0, 200, 250}

\* the percentages the settings hold
InputGainPercents == {-50, 150, 250}

\* f32::max and f32::clamp
f32_max(a, b) == IF a > b THEN a ELSE b
f32_clamp(x, lo, hi) == IF x < lo THEN lo ELSE IF x > hi THEN hi ELSE x

\* a set_input_gain that stores the value as it comes
set_input_gain_as_passed(c, gain) ==
    [c EXCEPT !.input_gain = gain, !.gain_passed = Some(gain)]

\* AudioIO::set_input_gain: input_gain.store(gain.max(0.0).to_bits())
set_input_gain(c, gain) ==
    [c EXCEPT !.input_gain = f32_max(gain, 0), !.gain_passed = Some(gain)]

\* a caller of WhisperCore::set_input_gain
SetInputGain ==
    /\ \E gain \in InputGainValues : core' = set_input_gain(core, gain)
    /\ UNCHANGED <<fnvars, cpvars, threads, procs>>

\* the settings apply their gain:
\* set_input_gain((input_gain_percent / 100.0).clamp(0.0, 2.0))
SettingsApplyGain ==
    /\ \E percent \in InputGainPercents :
           core' = set_input_gain(core, f32_clamp(percent, 0, 200))
    /\ UNCHANGED <<fnvars, cpvars, threads, procs>>

NextGain ==
    \/ NextSessions
    \/ SetInputGain
    \/ SettingsApplyGain

SpecGain == InitCore /\ [][NextGain]_vars

\* the gains the captured samples in the buffer were multiplied by
AppliedGains == {core.audio_buffer[k].gain : k \in DOMAIN core.audio_buffer}

\* C18 as stated: the gain by which captured samples are multiplied is
\* always within 0.0 to 2.0, whatever value is passed to set_input_gain.
C18_GainWithinZeroAndTwo ==
    /\ core.input_gain \in 0..200
    /\ AppliedGains \subseteq 0..200

\* C18: the gain by which captured samples are multiplied is never below
\* 0.0 and is 1.0 until set_input_gain is called; a negative value passed to
\* set_input_gain is stored as 0.0, and any other value is stored as passed,
\* so that the gain is within 0.0 to 2.0 after every call that passes a
\* value that is at most 2.0, as the settings do.
C18_GainNeverNegativeStoredAsPassed ==
    /\ core.input_gain >= 0
    /\ \A g \in AppliedGains : g >= 0
    /\ core.gain_passed = None => core.input_gain = 100
    /\ core.gain_passed # None =>
           LET gain == Unwrap(core.gain_passed)
           IN  /\ gain < 0 => core.input_gain = 0
               /\ gain >= 0 => core.input_gain = gain
               /\ gain <= 200 => core.input_gain \in 0..200

\* a negative value was passed, and samples multiplied by 0.0 are in the
\* buffer
C18_Witness ==
    /\ core.gain_passed = Some(-50)
    /\ core.input_gain = 0
    /\ 0 \in AppliedGains


(***************************************************************************)
(* C19.  On SpecWatch, where the session is started with any of the        *)
(* configured values.  A watchdog never stops the session because of       *)
(* silence when the auto-stop silence duration passed to                   *)
(* set_auto_stop_params is 0, and never because of the elapsed time when   *)
(* the maximum recording duration passed is 0; a negative value passed     *)
(* does what 0 does, and is held by the watchdog as 0.                     *)
(***************************************************************************)
AutoStopPassed == Unwrap(core.auto_stop_passed)

C19_ZeroOrNegativeDisables ==
    \A i \in Watchdogs :
        /\ core.auto_stop_passed # None
        /\ AutoStopPassed.silence_secs <= 0 =>
               /\ threads[i].auto_stop_silence_secs = 0
               /\ "silence" \notin threads[i].fired_for
        /\ AutoStopPassed.max_secs <= 0 =>
               /\ threads[i].max_record_secs = 0
               /\ "max" \notin threads[i].fired_for
        /\ threads[i].fired > 0 => threads[i].fired_for # {}

\* both checks are disabled, one by a negative value and one by 0; the
\* watchdog has passed a silent block to the processor, the session is as
\* old as the model lets it be, and the watchdog has not fired
C19_Witness ==
    \E i \in Watchdogs :
        /\ AutoStopPassed = [silence_secs |-> -1, max_secs |-> 0]
        /\ threads[i].pc = "loop"
        /\ threads[i].last_tick = MaxCoreNow
        /\ core.record_started_at = Some(0)
        /\ core.last_processed_len = Len(core.audio_buffer)
        /\ Len(core.audio_buffer) > 0
        /\ \A k \in DOMAIN core.audio_buffer : core.audio_buffer[k].rms = 0
        /\ threads[i].fired = 0
        /\ ~core.stop_flag


(***************************************************************************)
(* C20.  What a finished call apply_pairs(text, pairs) returned, stated    *)
(* on the text and the pairs alone.                                        *)
(***************************************************************************)
ApplyDone == call.fn = "apply_pairs" /\ call.ret # None

AliasOf(k) == call.pairs[k].alias

\* the offsets at which the alias of pair k occurs in the original text
AliasStarts(k) ==
    IF AliasOf(k) = <<>> THEN {}
    ELSE {s \in 0..(Len(call.text) - Len(AliasOf(k))) :
              SubSeq(call.text, s + 1, s + Len(AliasOf(k))) = AliasOf(k)}

\* the occurrences a search from left to right finds: no two of them
\* overlap, and each other occurrence begins inside one of them
FoundStarts(k) ==
    CHOOSE S \in SUBSET AliasStarts(k) :
        /\ \A x, y \in S : x < y => x + Len(AliasOf(k)) <= y
        /\ \A s \in AliasStarts(k) \ S :
               \E y \in S : y < s /\ s < y + Len(AliasOf(k))

\* the matches: the occurrences found of every pair
Matches ==
    UNION { { [start |-> s, end |-> s + Len(AliasOf(k)), pair |-> k] :
                s \in FoundStarts(k) } : k \in DOMAIN call.pairs }

Overlap(a, b) == a.start < b.end /\ b.start < a.end

NonOverlapping(R) == \A a, b \in R : a # b => ~Overlap(a, b)

\* a match that is not replaced overlaps the replaced match of an earlier pair
EarlierPairWins(R) ==
    \A m \in Matches \ R : \E r \in R : r.pair < m.pair /\ Overlap(m, r)

\* the pairs are in the order flatten_sorted_with_context gives them
LongestFirst ==
    \A j, k \in DOMAIN call.pairs : j < k => Len(AliasOf(j)) >= Len(AliasOf(k))

\* a replaced match overlaps the match of a longer alias only where that
\* match lost to the replaced match of a pair before it
LongerAliasWins(R) ==
    \A r \in R, m \in Matches :
        Len(AliasOf(m.pair)) > Len(AliasOf(r.pair)) /\ Overlap(m, r) =>
            \E q \in R : q.pair < m.pair /\ q # r /\ Overlap(m, q)

\* the original text with the matches R replaced, read from offset p on
RECURSIVE ReplacedFrom(_, _)
ReplacedFrom(R, p) ==
    IF p >= Len(call.text) THEN <<>>
    ELSE IF \E r \in R : r.start = p
         THEN LET r == CHOOSE r \in R : r.start = p
              IN  call.pairs[r.pair].canon \o ReplacedFrom(R, r.end)
         ELSE <<call.text[p + 1]>> \o ReplacedFrom(R, p + 1)

MaxRunToggles == 2

\* the auto-stop settings, in tenths of a second: silence, maximum duration
RunSettings == {<<0, 0>>, <<1, 2>>}

\* set_auto_stop_params(s.auto_stop_silence_secs, s.max_record_secs)
RunApplySettings ==
    /\ core.auto_stop_passed = None
    /\ \E s \in RunSettings : core' = set_auto_stop_params(core, s[1], s[2])
    /\ UNCHANGED <<fnvars, cpvars, threads, procs>>

ToggleInRun ==
    /\ core.auto_stop_passed # None
    /\ core.toggles < MaxRunToggles
    /\ toggle_recording

NextRun ==
    \/ RunApplySettings
    \/ ToggleInRun
    \/ CoreTick
    \/ StartCaptureClear
    \/ StartCaptureFlag
    \/ StartCaptureSpawn
    \/ StartCaptureStoreHandle
    \/ StartProcessingConfig
    \/ StartProcessingLastLen
    \/ StartProcessingStartedAt
    \/ StartProcessingSpawn
    \/ StartProcessingStoreHandle
    \/ CaptureSelectOk
    \/ CaptureSelectErr
    \/ CaptureWait
    \/ CaptureBuildOk
    \/ CaptureBuildErr
    \/ CapturePlayOk
    \/ CapturePlayErr
    \/ CaptureLoopExit
    \/ CaptureDrop
    \/ CallbackCheck
    \/ CallbackAppend
    \/ WatchdogInit
    \/ WatchdogStopped
    \/ WatchdogDue
    \/ WatchdogDrain
    \/ WatchdogProcess
    \/ WatchdogMaxCheck
    \/ StopCaptureFlag
    \/ StopCaptureEpoch
    \/ StopCaptureTake
    \/ StopCaptureJoin
    \/ StopTakeProcessing
    \/ StopJoinProcessing
    \/ FinalizeSlice
    \/ FinalizeProcess
    \/ FinalizeFinish
    \/ FinalizePostProcess
    \/ FinalizeMetrics
    \/ FinalizeIdle
    \/ StopSetIdle

SpecRun == InitCore /\ [][NextRun]_vars

\* the ids of the blocks of a sequence of blocks
IdsOf(blocks) == {blocks[k].id : k \in DOMAIN blocks}

\* the blocks still in the audio buffer, the blocks a watchdog or a stop
\* thread has copied out of it and not yet passed on, and the blocks passed
\* to process_audio
IdsInBuffer == IdsOf(core.audio_buffer)
IdsInHand ==
    UNION { IdsOf(threads[i].pcm) :
              i \in {j \in DOMAIN threads : threads[j].kind \in {"watchdog", "stop"}} }
IdsFed == UNION { IdsOf(procs[k].fed) : k \in DOMAIN procs }

\* the number of times block id was passed to process_audio
TimesFed(id) ==
    Cardinality({ kj \in (DOMAIN procs) \X (1..core.appended) :
                    /\ kj[2] \in DOMAIN procs[kj[1]].fed
                    /\ procs[kj[1]].fed[kj[2]].id = id })

\* C21 as claimed: every sample appended to the audio buffer is passed to
\* process_audio exactly once and in buffer order.  A block that was
\* appended is in the buffer, in the hands of the thread that copied it
\* out, or was passed to process_audio; it is passed at most once; and the
\* blocks passed to a processor are in the order in which they were
\* appended.
C21_EverySamplePassedOnceInOrder ==
    /\ \A id \in 1..core.appended :
           /\ id \in IdsInBuffer \cup IdsInHand \cup IdsFed
           /\ TimesFed(id) <= 1
    /\ \A k \in DOMAIN procs :
           \A a, b \in DOMAIN procs[k].fed :
               a < b => procs[k].fed[a].id < procs[k].fed[b].id


(***************************************************************************)
(* C22.  The steps that bring a stop nearer its end: every step of a       *)
(* start, capture, watchdog or stop thread, the return of a callback in    *)
(* progress, and a toggle_recording that spawns a thread.  The others      *)
(* (the clock, the next tick of a watchdog, the next callback) can go on   *)
(* for ever, and with the auto-stop disabled they never set the stop flag. *)
(***************************************************************************)
RunProgress ==
    \/ toggle_recording
    \/ StartCaptureClear
    \/ StartCaptureFlag
    \/ StartCaptureSpawn
    \/ StartCaptureStoreHandle
    \/ StartProcessingConfig
    \/ StartProcessingLastLen
    \/ StartProcessingStartedAt
    \/ StartProcessingSpawn
    \/ StartProcessingStoreHandle
    \/ CaptureSelectOk
    \/ CaptureSelectErr
    \/ CaptureWait
    \/ CaptureBuildOk
    \/ CaptureBuildErr
    \/ CapturePlayOk
    \/ CapturePlayErr
    \/ CaptureLoopExit
    \/ CaptureDrop
    \/ CallbackAppend
    \/ WatchdogInit
    \/ WatchdogStopped
    \/ WatchdogDrain
    \/ WatchdogProcess
    \/ WatchdogMaxCheck
    \/ StopCaptureFlag
    \/ StopCaptureEpoch
    \/ StopCaptureTake
    \/ StopCaptureJoin
    \/ StopTakeProcessing
    \/ StopJoinProcessing
    \/ FinalizeSlice
    \/ FinalizeProcess
    \/ FinalizeFinish
    \/ FinalizePostProcess
    \/ FinalizeMetrics
    \/ FinalizeIdle
    \/ StopSetIdle

\* the settings disable both auto-stops
AutoStopDisabled ==
    /\ core.auto_stop_passed # None
    /\ core.auto_stop_silence_secs = 0
    /\ core.max_record_secs = 0

\* the threads running stop_recording_internal that have not returned
StopsRunning == {i \in DOMAIN threads : threads[i].kind = "stop" /\ threads[i].pc # "done"}

\* C22 as claimed, for sessions with the auto-stop disabled: a session that
\* is stopped comes back to Idle, and stop_recording_internal never blocks
\* for ever on a join.  As long as a stop_recording_internal has not
\* returned, some thread can take a step that brings its return nearer.
C22_StopNeverBlocksForever ==
    AutoStopDisabled /\ StopsRunning # {} => ENABLED RunProgress


\* the threads that run start_recording_internal, one for each session, and
\* the threads that run stop_recording_internal
StartThreads == {i \in DOMAIN threads : threads[i].kind = "start"}
StopThreads == {i \in DOMAIN threads : threads[i].kind = "stop"}

\* C23 as claimed: stop_recording_internal runs at most once for each
\* recording session, whether toggle_recording, the auto-stop of the
\* watchdog or both stop it: there are never more threads running or having
\* run stop_recording_internal than sessions were started.
C23_StopRunsAtMostOncePerSession ==
    Cardinality(StopThreads) <= Cardinality(StartThreads)


\* the capture and watchdog threads that have not returned, and the
\* processors whose inference worker has not been joined
LiveSessionThreads ==
    {i \in DOMAIN threads : threads[i].kind \in {"capture", "watchdog"}
                            /\ threads[i].pc # "done"}
LiveWorkers == {k \in DOMAIN procs : procs[k].rx}

\* C24 as claimed: whenever the recording state is Idle, no capture thread,
\* watchdog thread or inference worker of any session is running.
C24_IdleMeansNoSessionThread ==
    core.state = "Idle" => LiveSessionThreads = {} /\ LiveWorkers = {}


(***************************************************************************)
(* One session of the Transcriber, as in SpecWatch, with the settings of   *)
(* the GUI applying the chunk split strategy at any time.                  *)
(***************************************************************************)
\* Transcriber::set_chunk_split_strategy
SetChunkSplitStrategy ==
    /\ \E strategy \in VadStrategy : core' = [core EXCEPT !.chunk_strategy = strategy]
    /\ UNCHANGED <<fnvars, cpvars, threads, procs>>

NextStrategy ==
    \/ SetChunkSplitStrategy
    \/ WatchStartProcessing
    \/ WatchAudio
    \/ WatchStopFlag
    \/ CoreTick
    \/ StartProcessingConfig
    \/ StartProcessingLastLen
    \/ StartProcessingStartedAt
    \/ StartProcessingSpawn
    \/ StartProcessingStoreHandle
    \/ WatchdogInit
    \/ WatchdogStopped
    \/ WatchdogDue
    \/ WatchdogDrain
    \/ WatchdogProcess
    \/ WatchdogMaxCheck

SpecStrategy == InitCore /\ [][NextStrategy]_vars

\* the processor that start_processing created together with watchdog i:
\* the k-th watchdog goes with the k-th processor
ProcessorOf(i) == procs[Cardinality({j \in Watchdogs : j <= i})]

\* C25 as claimed: the silence threshold of the watchdog's auto-stop timer
\* is the silence threshold of the VAD of its session, whenever
\* set_chunk_split_strategy is called.
C25_WatchdogThresholdIsVadThreshold ==
    \A i \in Watchdogs :
        threads[i].pc # "init" =>
            threads[i].silence_threshold = ProcessorOf(i).vad.silence_threshold


\* a step that is one call of ChunkProcessor::process_audio
ProcessAudioStep == hist'.frames = hist.frames + 1

\* the chunks made in the step
NewChunks == Len(chunks') - Len(chunks)

(***************************************************************************)
(* C26.  Each VAD Split decision creates exactly one AudioChunk, the       *)
(* end-of-recording flush creates at most one, and a Skip or Continue      *)
(* decision creates none; chunk ids are assigned 0, 1, 2, ... in creation  *)
(* order.                                                                  *)
(***************************************************************************)
C26_OneChunkPerSplitIdsInOrder ==
    [][/\ ProcessAudioStep /\ hist'.decision = "Split"
            => NewChunks = 1 /\ SubSeq(chunks', 1, Len(chunks)) = chunks
       /\ ProcessAudioStep /\ hist'.decision \in {"Skip", "Continue"}
            => chunks' = chunks
       /\ FinishStep
            => NewChunks \in {0, 1} /\ SubSeq(chunks', 1, Len(chunks)) = chunks
       /\ \A k \in DOMAIN chunks' : chunks'[k].id = k - 1]_vars

\* a session of a Split, a Skip and a Continue whose audio the flush has
\* made the second chunk of
C26_Witness ==
    /\ fpc # "idle"
    /\ hist.frames = 4
    /\ hist.decision = "Continue"
    /\ Len(hist.skipped) = 1
    /\ Len(chunks) = 2
    /\ hist.skipped[1].before = 1
    /\ chunks[1].id = 0 /\ chunks[2].id = 1


\* the maximum chunk duration the claim names for a strategy
MaxChunkOf(strategy) == IF strategy = "Normal" THEN MaxChunkNormal ELSE MaxChunkAggressive

\* the minimum chunk duration the claim names for a strategy
MinChunkOf(strategy) == IF strategy = "Normal" THEN MinChunkNormal ELSE MinChunkAggressive

\* the last frame brought the chunk in progress to the maximum or beyond
LastFrameAtMax ==
    hist.frames > 0 /\ hist.last.chunk_duration >= MaxChunkOf(vad.strategy)

\* the last frame was silent and the silence timer had reached the required
\* silence duration
LastFrameEndsSilence ==
    hist.last.silent /\ hist.last.silence_for >= hist.last.required

\* speech_frames / total_frames > 0.10, the last frame counted
LastSpeechRatioAboveTenth == 10 * hist.last.speech_frames > hist.last.total_frames

(***************************************************************************)
(* C27.  When a frame brings the duration of the chunk in progress to      *)
(* max_chunk_duration or beyond (30 s Normal, 25 s Aggressive),            *)
(* process_audio returns Split for that frame whatever the speech ratio    *)
(* is.                                                                     *)
(***************************************************************************)
C27_SplitAtMaxWhateverRatio ==
    LastFrameAtMax => hist.last.decision = "Split"

\* C27, as the source has it: when a frame brings the duration of the chunk
\* in progress to max_chunk_duration or beyond, process_audio returns Split
\* for that frame whatever the speech ratio is, unless the frame is silent,
\* the accumulated silence has reached the required silence duration and
\* the speech ratio is at most 0.10: it then returns Skip.
C27_SplitAtMaxUnlessSilenceOnlySkip ==
    LastFrameAtMax =>
        hist.last.decision = IF LastFrameEndsSilence /\ ~LastSpeechRatioAboveTenth
                             THEN "Skip" ELSE "Split"

\* a forced Split of a chunk without a loud frame: the silent frame that
\* reached the maximum came before the required silence had passed
C27_Witness ==
    /\ LastFrameAtMax
    /\ hist.last.decision = "Split"
    /\ hist.last.silent
    /\ hist.last.speech_frames = 0
    /\ hist.last.silence_for < hist.last.required
    /\ vad.chunk_samples = 0


(***************************************************************************)
(* The session fed in real time, under either strategy.                    *)
(***************************************************************************)
InitRtAny ==
    /\ now = 0
    /\ \E strategy \in VadStrategy : vad = new_with_strategy(SampleRate, strategy)
    /\ chunks = <<>>
    /\ next_chunk_id = 0
    /\ current_buffer = <<>>
    /\ chunk_start_time = 0
    /\ total_samples_processed = 0
    /\ tx = TRUE
    /\ rx = TRUE
    /\ queue = <<>>
    /\ wpc = "none"
    /\ wchunk = None
    /\ results = <<>>
    /\ fpc = "idle"
    /\ returned = <<>>
    /\ hist = [frames |-> 0, log |-> <<>>, sent |-> {}, skipped |-> <<>>,
               final_dropped |-> 0, closed_with |-> <<>>, state |-> "pending",
               outcome |-> [id \in {} |-> "none"], decision |-> "none",
               loud |-> 0, quiet |-> 0, splits |-> <<>>]
    /\ core = CoreNew
    /\ threads = <<>>
    /\ procs = <<>>
    /\ call = None

SpecRtAny == InitRtAny /\ [][NextRt]_vars

\* a step that feeds one quiet frame to process_audio
RtQuietStep == hist'.quiet = hist.quiet + 1

\* the duration of the chunk in progress, the frame of the step counted
RtChunkDuration == DurationOf(vad.chunk_samples + RtQuiet.n, SampleRate)

\* the silence accumulated when the frame of the step arrives
RtSilence ==
    IF vad.silence_started = None THEN 0 ELSE now - Unwrap(vad.silence_started)

\* the frame of the step is silent, the chunk has its minimum duration and
\* the silence has lasted the required duration
RtSilenceEndsChunk ==
    /\ RtQuietStep
    /\ RtChunkDuration >= MinChunkOf(vad.strategy)
    /\ RtSilence >= get_dynamic_silence_threshold(vad, RtChunkDuration)

\* speech_frames / total_frames > 0.10, the quiet frame of the step counted
RtSpeechRatioAboveTenth == 10 * vad.speech_frames > vad.total_frames + 1

(***************************************************************************)
(* C28.  On a silent frame with chunk duration at least min_chunk_duration *)
(* (3.0 s Normal, 1.5 s Aggressive) and accumulated silence at least the   *)
(* required silence duration, the VAD returns Split when                   *)
(* speech_frames / total_frames > 0.10 and Skip otherwise, and in both     *)
(* cases resets chunk_samples, speech_frames, total_frames and the silence *)
(* timer to their initial values.                                          *)
(***************************************************************************)
C28_SilenceEndsChunkSplitOrSkip ==
    [][RtSilenceEndsChunk =>
          /\ hist'.decision = IF RtSpeechRatioAboveTenth THEN "Split" ELSE "Skip"
          /\ vad'.chunk_samples = 0
          /\ vad'.speech_frames = 0
          /\ vad'.total_frames = 0
          /\ vad'.silence_started = None]_vars

\* a Skip of a chunk of 3.0 s whose first three frames of thirty were loud:
\* a speech ratio of exactly 0.10
C28_Witness ==
    /\ vad.strategy = "Normal"
    /\ hist.decision = "Skip"
    /\ hist.loud = 3 /\ hist.quiet = 27
    /\ hist.skipped = <<[before |-> 0, n |-> 30]>>
    /\ vad.chunk_samples = 0 /\ vad.total_frames = 0 /\ vad.silence_started = None


(***************************************************************************)
(* The whole of a WhisperCore as in SpecRun, with the silence auto-stop    *)
(* set to a tenth of a second, the maximum duration disabled, and up to    *)
(* MaxQuietCallbacks callbacks of the device.                              *)
(***************************************************************************)
MaxQuietCallbacks == 2

QuietSettings == {<<1, 0>>}

QuietApplySettings ==
    /\ core.auto_stop_passed = None
    /\ \E s \in QuietSettings : core' = set_auto_stop_params(core, s[1], s[2])
    /\ UNCHANGED <<fnvars, cpvars, threads, procs>>

QuietCallbackCheck == CallbackCheckUpTo(MaxQuietCallbacks)

NextQuiet ==
    \/ QuietApplySettings
    \/ ToggleInRun
    \/ CoreTick
    \/ StartCaptureClear
    \/ StartCaptureFlag
    \/ StartCaptureSpawn
    \/ StartCaptureStoreHandle
    \/ StartProcessingConfig
    \/ StartProcessingLastLen
    \/ StartProcessingStartedAt
    \/ StartProcessingSpawn
    \/ StartProcessingStoreHandle
    \/ CaptureSelectOk
    \/ CaptureSelectErr
    \/ CaptureWait
    \/ CaptureBuildOk
    \/ CaptureBuildErr
    \/ CapturePlayOk
    \/ CapturePlayErr
    \/ CaptureLoopExit
    \/ CaptureDrop
    \/ QuietCallbackCheck
    \/ CallbackAppend
    \/ WatchdogInit
    \/ WatchdogStopped
    \/ WatchdogDue
    \/ WatchdogDrain
    \/ WatchdogProcess
    \/ WatchdogMaxCheck
    \/ StopCaptureFlag
    \/ StopCaptureEpoch
    \/ StopCaptureTake
    \/ StopCaptureJoin
    \/ StopTakeProcessing
    \/ StopJoinProcessing
    \/ FinalizeSlice
    \/ FinalizeProcess
    \/ FinalizeFinish
    \/ FinalizePostProcess
    \/ FinalizeMetrics
    \/ FinalizeIdle
    \/ StopSetIdle

SpecQuiet == InitCore /\ [][NextQuiet]_vars

\* the step is the watchdog i handling the delta it has drained
WatchdogHandlesDelta(i) ==
    /\ threads[i].kind = "watchdog"
    /\ threads[i].pc = "process"
    /\ threads'[i].pc = "max"

\* the delta the watchdog i has drained has an RMS at or above its threshold
DeltaAtOrAboveThreshold(i) == ~RmsBelow(threads[i].pcm, threads[i].silence_threshold)

\* the silence auto-stop of the watchdog i is configured and has not fired
SilenceTimerInUse(i) ==
    ~threads[i].auto_stop_triggered /\ threads[i].auto_stop_silence_secs > 0

\* the step is the watchdog i firing the silence auto-stop
FiresForSilence(i) ==
    "silence" \in threads'[i].fired_for /\ "silence" \notin threads[i].fired_for

(***************************************************************************)
(* C29.  The silence auto-stop fires only after the configured duration    *)
(* has elapsed during which every drained audio delta had RMS below the    *)
(* silence threshold: a delta with RMS at or above the threshold restarts  *)
(* the session-wide silence timer, and VAD Split or Skip decisions do not  *)
(* reset it.                                                               *)
(***************************************************************************)
C29_SilenceStopOnlyAfterQuietDuration ==
    [][\A i \in DOMAIN threads :
          WatchdogHandlesDelta(i) /\ SilenceTimerInUse(i) =>
              /\ DeltaAtOrAboveThreshold(i) =>
                    /\ threads'[i].global_silence_started = None
                    /\ ~FiresForSilence(i)
              /\ ~DeltaAtOrAboveThreshold(i) /\ threads[i].global_silence_started # None =>
                    threads'[i].global_silence_started = threads[i].global_silence_started
              /\ FiresForSilence(i) =>
                    /\ threads'[i].global_silence_started # None
                    /\ now - Unwrap(threads'[i].global_silence_started)
                          >= threads[i].auto_stop_silence_secs]_vars


(***************************************************************************)
(* The session of SpecWatch under a fair scheduler: the clock advances,    *)
(* the thread in start_processing and the watchdog thread are scheduled    *)
(* again and again, and the watchdog's sleep of 50 ms ends.  The head of   *)
(* the watchdog's loop is one step for the scheduler, whichever way the    *)
(* stop flag sends it.                                                     *)
(***************************************************************************)
StartProcessingSteps ==
    \/ StartProcessingConfig
    \/ StartProcessingLastLen
    \/ StartProcessingStartedAt
    \/ StartProcessingSpawn
    \/ StartProcessingStoreHandle

WatchdogLoopHead == WatchdogStopped \/ WatchdogDue

WatchdogTickSteps == WatchdogInit \/ WatchdogDrain \/ WatchdogProcess \/ WatchdogMaxCheck

SpecWatchFair ==
    /\ SpecWatch
    /\ WF_vars(CoreTick)
    /\ WF_vars(StartProcessingSteps)
    /\ WF_vars(WatchdogLoopHead)
    /\ WF_vars(WatchdogTickSteps)

\* the watchdog i is in a tick, or at the head of its loop with a tick that
\* is due or will be: the model's clock stops at MaxCoreNow, and a watchdog
\* whose interval has not passed then has no tick left
TickAhead(i) ==
    \/ threads[i].pc \in {"drain", "process", "max"}
    \/ /\ threads[i].pc = "loop"
       /\ now - threads[i].last_tick >= ProcessInterval \/ now < MaxCoreNow

\* the elapsed time of the session of a watchdog has reached the maximum
\* the watchdog was given, which is above 0
MaxDurationReached ==
    \E i \in Watchdogs :
        /\ threads[i].max_record_secs > 0
        /\ now - threads[i].session_started_at >= threads[i].max_record_secs
        /\ TickAhead(i)

\* the watchdog has invoked the stop callback for the maximum duration
StopInvokedAtMax == \E i \in Watchdogs : "max" \in threads[i].fired_for

\* the session was stopped earlier: the watchdog has seen the stop flag, or
\* its silence auto-stop has fired
StoppedEarlier ==
    \E i \in Watchdogs :
        threads[i].pc = "done" \/ "silence" \in threads[i].fired_for

(***************************************************************************)
(* C30.  If the maximum recording duration is configured above 0 and the   *)
(* session is not stopped earlier, the watchdog eventually invokes the     *)
(* stop callback once the elapsed session time reaches that maximum,       *)
(* whether or not any audio arrives from the capture device.  SpecWatch    *)
(* has one session and one watchdog.                                       *)
(***************************************************************************)
C30_MaxDurationEventuallyStops ==
    MaxDurationReached ~> (StopInvokedAtMax \/ StoppedEarlier)

\* the stop callback invoked at the maximum duration of a session into
\* which the device delivered no audio
C30_Witness ==
    /\ StopInvokedAtMax
    /\ ~StoppedEarlier
    /\ core.appended = 0
    /\ core.audio_buffer = <<>>


\* the samples of a sequence of chunks
RECURSIVE SamplesOfChunks(_)
SamplesOfChunks(cs) ==
    IF cs = <<>> THEN 0 ELSE NumSamples(Head(cs).samples) + SamplesOfChunks(Tail(cs))

\* the samples of the segments the Skip decisions discarded
RECURSIVE SamplesSkipped(_)
SamplesSkipped(skips) ==
    IF skips = <<>> THEN 0 ELSE Head(skips).n + SamplesSkipped(Tail(skips))

\* the samples of a chunk, as positions in the audio of the session: the
\* chunk begins start_time seconds into it
FirstSampleOf(c) == (c.start_time * SampleRate) \div 10
SamplePositionsOf(c) == FirstSampleOf(c)..(FirstSampleOf(c) + NumSamples(c.samples) - 1)

(***************************************************************************)
(* C31.  After any sequence of process_audio calls, the number of samples  *)
(* processed equals the samples of all created chunks plus the samples of  *)
(* all skipped segments plus the length of the current buffer, and no      *)
(* sample belongs to two chunks.                                           *)
(***************************************************************************)
C31_SamplesAccountedForOnce ==
    /\ total_samples_processed
          = SamplesOfChunks(chunks) + SamplesSkipped(hist.skipped)
              + NumSamples(current_buffer)
    /\ \A k, l \in DOMAIN chunks :
          k # l => SamplePositionsOf(chunks[k]) \cap SamplePositionsOf(chunks[l]) = {}
    /\ \A k \in DOMAIN chunks :
          SamplePositionsOf(chunks[k]) \subseteq 0..(total_samples_processed - 1)

\* four calls of process_audio have left two chunks and a skipped segment
\* between them
C31_Witness ==
    /\ fpc = "idle"
    /\ hist.frames = 4
    /\ Len(chunks) = 2
    /\ Len(hist.skipped) = 1
    /\ hist.skipped[1].before = 1
    /\ FirstSampleOf(chunks[2]) > FirstSampleOf(chunks[1]) + NumSamples(chunks[1].samples)


\* the capture threads that have not returned
CapturesRunning == {i \in Captures : threads[i].pc # "done"}

(***************************************************************************)
(* C32.  The global active-input-stream counter equals the number of       *)
(* capture threads that currently hold an open input stream: every         *)
(* increment is matched by one decrement on every path by which that       *)
(* capture thread ends, so the counter is 0 whenever no capture thread is  *)
(* running.                                                                *)
(***************************************************************************)
C32_CounterCountsOpenStreams ==
    /\ core.active_streams = Cardinality(StreamHolders)
    /\ CapturesRunning = {} => core.active_streams = 0


(***************************************************************************)
(* C33: every chunk whose inference returned an error has an error log     *)
(* line of its own: the worker handed the logger a line for that chunk     *)
(* when the inference ended.                                               *)
(***************************************************************************)
FailedInferences == {k \in LogIndexes("end") : hist.log[k].outcome = "error"}

C33_InferenceErrorIsLogged ==
    \A k \in FailedInferences :
        /\ hist.log[k].line # None
        /\ Unwrap(hist.log[k].line).id = hist.log[k].id


(***************************************************************************)
(* transcribe_with_state (src/src/transcription/whisper.rs): the text of   *)
(* the segments the engine decoded, collapsed and filtered by the engine's *)
(* no-speech probability.  Probabilities are in hundredths.                *)
(***************************************************************************)
NoSpeechSuppress == 85     \* 0.85
MinBlock == 12
MaxBlock == 128
SentenceEnds == {"!", "?"}

\* a filter that looks at the text only
should_suppress_output_text_only(text, last_no_speech_prob) ==
    is_punct_or_space_only(Trim(text))

should_suppress_output(text, last_no_speech_prob) ==
    IF last_no_speech_prob >= NoSpeechSuppress THEN TRUE
    ELSE is_punct_or_space_only(Trim(text))

\* stage 1 of collapse_repetitions: the sentences of s without immediate
\* exact duplicates
RECURSIVE DedupSentences(_, _, _, _)
DedupSentences(s, i, buf, out) ==
    IF i > Len(s)
    THEN IF Trim(buf) # <<>> /\ (out = <<>> \/ out[Len(out)] # Trim(buf))
         THEN Append(out, Trim(buf)) ELSE out
    ELSE LET b == Append(buf, s[i])
         IN  IF s[i] \in SentenceEnds
             THEN IF out # <<>> /\ out[Len(out)] = Trim(b)
                  THEN DedupSentences(s, i + 1, <<>>, out)
                  ELSE DedupSentences(s, i + 1, <<>>, Append(out, Trim(b)))
             ELSE DedupSentences(s, i + 1, b, out)

RECURSIVE JoinWithSpace(_)
JoinWithSpace(ss) ==
    IF ss = <<>> THEN <<>>
    ELSE IF Len(ss) = 1 THEN ss[1]
    ELSE ss[1] \o <<" ">> \o JoinWithSpace(Tail(ss))

\* the end of the run of copies of the block chars[i..i+w) that starts at j
RECURSIVE EndOfRepeats(_, _, _, _)
EndOfRepeats(chars, i, w, j) ==
    IF j + w <= Len(chars) /\ SubSeq(chars, i + 1, i + w) = SubSeq(chars, j + 1, j + w)
    THEN EndOfRepeats(chars, i, w, j + w)
    ELSE j

\* stage 2 of collapse_repetitions, from the 0-based position i on
RECURSIVE CollapseBlocks(_, _)
CollapseBlocks(chars, i) ==
    IF i >= Len(chars) THEN <<>>
    ELSE LET n == Len(chars)
             half == (n - i) \div 2
             max_block == IF half < MaxBlock THEN half ELSE MaxBlock
             repeated == {w \in MinBlock..max_block :
                             SubSeq(chars, i + 1, i + w) = SubSeq(chars, i + w + 1, i + 2 * w)}
         IN  IF repeated # {}
             THEN LET w == CHOOSE x \in repeated : \A y \in repeated : y <= x
                  IN  SubSeq(chars, i + 1, i + w)
                        \o CollapseBlocks(chars, EndOfRepeats(chars, i, w, i + w))
             ELSE <<chars[i + 1]>> \o CollapseBlocks(chars, i + 1)

collapse_repetitions(s) ==
    Trim(CollapseBlocks(JoinWithSpace(DedupSentences(s, 1, <<>>, <<>>)), 0))

\* full_text after the loop over the segments
RECURSIVE FullText(_)
FullText(segments) ==
    IF segments = <<>> THEN <<>>
    ELSE Head(segments).text \o <<" ">> \o FullText(Tail(segments))

\* last_ns after the loop over the segments
LastNs(segments) ==
    IF segments = <<>> THEN 0 ELSE segments[Len(segments)].no_speech_prob

\* what transcribe_with_state returns when the engine's full() returned
\* engine: Err, or the text left by the post-output filter
transcribe_with_state(engine) ==
    IF ~engine.ok THEN [ok |-> FALSE, text |-> <<>>]
    ELSE LET text_out == collapse_repetitions(Trim(FullText(engine.segments)))
         IN  [ok |-> TRUE,
              text |-> IF should_suppress_output(text_out, LastNs(engine.segments))
                       THEN <<>> ELSE text_out]

\* what the engine may decode for a chunk
MaxSegments == 2
SegmentTexts == { <<"h", "i">>, <<"h", "i", "!">>, <<",">> }
NoSpeechProbs == {0, 84, 85, 90}
EngineSegments == [text : SegmentTexts, no_speech_prob : NoSpeechProbs]
EngineOutputs ==
    {[ok |-> FALSE, segments |-> <<>>]}
        \cup {[ok |-> TRUE, segments |-> ss] :
                ss \in UNION {[1..m -> EngineSegments] : m \in 0..MaxSegments}}

\* one chunk is in the channel and the engine will decode engine for it
InitInfer ==
    /\ now = 0
    /\ vad = new_with_strategy(SampleRate, "Normal")
    /\ chunks = <<[id |-> 0, samples |-> <<[n |-> 30, rms |-> 50]>>,
                  start_time |-> 0, duration |-> 30]>>
    /\ next_chunk_id = 1
    /\ current_buffer = <<>>
    /\ chunk_start_time = 30
    /\ total_samples_processed = 30
    /\ tx = TRUE
    /\ rx = TRUE
    /\ queue = chunks
    /\ wpc = "recv"
    /\ wchunk = None
    /\ results = <<>>
    /\ fpc = "idle"
    /\ returned = <<>>
    /\ hist = [frames |-> 1, log |-> <<>>, sent |-> {0}, skipped |-> <<>>,
               final_dropped |-> 0, closed_with |-> <<>>, state |-> "ok",
               outcome |-> [id \in {} |-> "none"], decision |-> "Split"]
    /\ core = CoreNew
    /\ threads = <<>>
    /\ procs = <<>>
    /\ \E e \in EngineOutputs :
         call = [fn |-> "transcribe_with_state", engine |-> e, ret |-> None]

\* the worker's call of transcribe_with_state returns
WorkerTranscribe ==
    /\ wpc = "infer"
    /\ call.ret = None
    /\ call' = [call EXCEPT !.ret = Some(transcribe_with_state(call.engine))]
    /\ UNCHANGED <<cpvars, corevars>>

\* the rest of the loop body for what transcribe_with_state returned
WorkerInferReturned ==
    /\ call.ret # None
    /\ WorkerInferWith({Unwrap(call.ret)})

NextInfer ==
    \/ WorkerRecv
    \/ WorkerTranscribe
    \/ WorkerInferReturned

SpecInfer == InitInfer /\ [][NextInfer]_vars

\* the engine decoded at least one segment and reported, with the last one,
\* a no-speech probability of 0.85 or more
HighNoSpeech ==
    /\ call.engine.ok
    /\ call.engine.segments # <<>>
    /\ call.engine.segments[Len(call.engine.segments)].no_speech_prob >= 85

DecodedText == Trim(FullText(call.engine.segments))

(***************************************************************************)
(* C34: a chunk for which the engine reports a no-speech probability of    *)
(* 0.85 or more gets an empty text from transcribe_with_state and no       *)
(* ChunkResult from the worker, whatever text was decoded.                 *)
(***************************************************************************)
C34_HighNoSpeechYieldsNoResult ==
    HighNoSpeech =>
        /\ call.ret # None => Unwrap(call.ret).ok /\ Unwrap(call.ret).text = <<>>
        /\ results = <<>>
        /\ \A k \in LogIndexes("end") : hist.log[k].outcome = "empty"

C34_Witness ==
    /\ HighNoSpeech
    /\ call.engine.segments[Len(call.engine.segments)].no_speech_prob = 85
    /\ ~is_punct_or_space_only(DecodedText)
    /\ LogIndexes("end") # {}
    /\ wpc = "recv"


(***************************************************************************)
(* C35: for any list of chunk results, every chunk text that is not empty  *)
(* after trimming occurs in the string combine_results returns.            *)
(***************************************************************************)
C35_EveryTextOccursInCombined ==
    call.fn = "combine_results" /\ call.ret # None =>
        \A k \in DOMAIN call.results :
            Trim(call.results[k].text) # <<>> =>
                OccursIn(Trim(call.results[k].text), Unwrap(call.ret))

\* two texts merged over an overlap, neither of them the whole result
C35_Witness ==
    /\ call.fn = "combine_results"
    /\ call.ret # None
    /\ CombineArgs = <<TxtHelloWor, TxtWorldFoo>>
    /\ Unwrap(call.ret) = TxtHelloWorldFoo
    /\ OccursIn(TxtWorldFoo, Unwrap(call.ret))

\* no non-empty prefix of t is a suffix of acc
NoPrefixIsSuffix(t, acc) ==
    \A k \in 1..Len(t) : ~EndsWith(acc, SubSeq(t, 1, k))

(***************************************************************************)
(* C36: when the next trimmed chunk text does not occur in the accumulator *)
(* and no non-empty prefix of it is a suffix of the accumulator,           *)
(* combine_results appends it directly after the accumulator, with no      *)
(* separator: "Hello" then "world" gives "Helloworld".                     *)
(***************************************************************************)
C36_AppendsWithoutSeparator ==
    call.fn = "combine_results" =>
        /\ (/\ call.i > 0
            /\ LastText # <<>>
            /\ ~OccursIn(LastText, call.prev)
            /\ NoPrefixIsSuffix(LastText, call.prev)) =>
              call.acc = call.prev \o LastText
        /\ call.ret # None /\ CombineArgs = <<TxtHello, TxtWorld>> =>
              Unwrap(call.ret) = TxtHelloworld

C36_Witness ==
    /\ call.fn = "combine_results"
    /\ call.i = 2
    /\ call.prev = TxtHello
    /\ LastText = TxtWorld
    /\ NoPrefixIsSuffix(LastText, call.prev)
    /\ call.acc = TxtHelloworld


(***************************************************************************)
(* C37: for every input text, the text filter_noise_text returns contains  *)
(* none of the fixed noise markers.                                        *)
(***************************************************************************)
C37_OutputHasNoMarker ==
    call.fn = "filter_noise_text" /\ call.ret # None =>
        \A k \in DOMAIN noise_patterns : ~OccursIn(noise_patterns[k], Unwrap(call.ret))


(***************************************************************************)
(* LlmPostProcessor (src/src/llm/mod.rs): the retry state behind a Mutex,  *)
(* and process() called by threads that share the processor.  Time is in   *)
(* tenths of a second.                                                     *)
(***************************************************************************)
BACKOFF_FAILURES == 3
BACKOFF_SECS == 60
DEFAULT_TIMEOUT_SECS == 30

MaxLlmCallers == 2
MaxLlmTicks == 4

from_secs(secs) == secs * 10
as_secs(duration) == duration \div 10

\* RetryState::default()
RetryStateDefault == [consecutive_failures |-> 0, next_retry_at |-> None]

\* a check that lets the last second of the wait through
check_backoff_short(state, t) ==
    IF state.next_retry_at # None /\ Unwrap(state.next_retry_at) - t >= from_secs(DEFAULT_TIMEOUT_SECS)
    THEN [state |-> state,
          wait |-> Some(as_secs(Unwrap(state.next_retry_at) - t))]
    ELSE [state |-> [state EXCEPT !.next_retry_at = None], wait |-> None]

\* check_backoff at the instant t: the seconds left to wait, at least 1, or
\* None, with an expired next_retry_at cleared
check_backoff(state, t) ==
    IF state.next_retry_at # None
    THEN IF Unwrap(state.next_retry_at) >= t
         THEN LET remaining == as_secs(Unwrap(state.next_retry_at) - t)
              IN  [state |-> state,
                   wait |-> Some(IF remaining > 1 THEN remaining ELSE 1)]
         ELSE [state |-> [state EXCEPT !.next_retry_at = None], wait |-> None]
    ELSE [state |-> state, wait |-> None]

\* register_failure at the instant t
register_failure(state, t) ==
    IF state.consecutive_failures + 1 >= BACKOFF_FAILURES
    THEN [state |-> [consecutive_failures |-> 0,
                     next_retry_at |-> Some(t + from_secs(BACKOFF_SECS))],
          wait |-> Some(BACKOFF_SECS)]
    ELSE [state |-> [state EXCEPT !.consecutive_failures = @ + 1], wait |-> None]

note_success(state) == [consecutive_failures |-> 0, next_retry_at |-> None]

\* the threads that call process() on the shared processor
LlmCallers == 1..MaxLlmCallers

\* what execute_chat_completion may come back with: a response with
\* content, a response without a content field, an error
LlmResponses == {"content", "missing_content", "error"}

\* the transcripts passed to process(): blank, or with text
LlmTranscripts == {<<" ">>, <<"h", "i">>}

\* WhisperCore::new with its LlmPostProcessor
LlmCore ==
    [f \in DOMAIN CoreNew \cup {"llm_processor"} |->
        IF f = "llm_processor" THEN RetryStateDefault ELSE CoreNew[f]]

InitLlm ==
    /\ now = 0
    /\ vad = new_with_strategy(SampleRate, "Normal")
    /\ chunks = <<>>
    /\ next_chunk_id = 0
    /\ current_buffer = <<>>
    /\ chunk_start_time = 0
    /\ total_samples_processed = 0
    /\ tx = TRUE
    /\ rx = TRUE
    /\ queue = <<>>
    /\ wpc = "none"
    /\ wchunk = None
    /\ results = <<>>
    /\ fpc = "idle"
    /\ returned = <<>>
    /\ hist = [since_success |-> 0, third_at |-> None,
               counted |-> 0, backoff_from |-> None,
               last_call |-> None, last_result |-> "none"]
    /\ core = LlmCore
    /\ threads = [i \in LlmCallers |-> [pc |-> "idle"]]
    /\ procs = <<>>
    /\ call = None

\* the clock moves on by the time a request may take
LlmTick ==
    /\ now < MaxLlmTicks * from_secs(DEFAULT_TIMEOUT_SECS)
    /\ now' = now + from_secs(DEFAULT_TIMEOUT_SECS)
    /\ UNCHANGED <<vad, chunks, next_chunk_id, current_buffer, chunk_start_time,
                   total_samples_processed, tx, rx, queue, wpc, wchunk, results, fpc,
                   returned, hist, corevars, fnvars>>

\* the third of three failed requests in a row, with no success between
\* them, returned no more than 60 seconds ago
AfterThreeFailures ==
    hist.third_at # None /\ now - Unwrap(hist.third_at) <= from_secs(60)

\* the same, with the failures counted from the last success or the last
\* start of a backoff, and no request having succeeded since
InBackoffWindow ==
    hist.backoff_from # None /\ now - Unwrap(hist.backoff_from) <= from_secs(60)

\* process() up to the request: the checks of settings.enabled, of the
\* backoff and of the transcript; the caller returns an error or goes on to
\* send the request
LlmProcess ==
    \E i \in LlmCallers, enabled \in BOOLEAN, transcript \in LlmTranscripts :
        /\ threads[i].pc = "idle"
        /\ LET checked == check_backoff(core.llm_processor, now)
               outcome ==
                   IF ~enabled THEN "disabled"
                   ELSE IF checked.wait # None THEN "backoff"
                   ELSE IF Trim(transcript) = <<>> THEN "empty"
                   ELSE "request"
           IN  /\ core' = IF enabled
                          THEN [core EXCEPT !.llm_processor = checked.state]
                          ELSE core
               /\ threads' = [threads EXCEPT ![i].pc =
                                 IF outcome = "request" THEN "request" ELSE "idle"]
               /\ hist' = [hist EXCEPT !.last_call =
                              Some([enabled |-> enabled,
                                    outcome |-> outcome,
                                    retry_after_secs |->
                                        IF outcome = "backoff" THEN checked.wait ELSE None,
                                    after_three |-> AfterThreeFailures,
                                    in_backoff |-> InBackoffWindow])]
        /\ UNCHANGED <<now, vad, chunks, next_chunk_id, current_buffer, chunk_start_time,
                       total_samples_processed, tx, rx, queue, wpc, wchunk, results, fpc,
                       returned, procs, fnvars>>

\* execute_chat_completion returns to caller i, which notes the success or
\* registers the failure and returns
LlmRequestReturns ==
    \E i \in LlmCallers, response \in LlmResponses :
        /\ threads[i].pc = "request"
        /\ threads' = [threads EXCEPT ![i].pc = "idle"]
        /\ IF response = "content"
           THEN /\ core' = [core EXCEPT !.llm_processor = note_success(@)]
                /\ hist' = [hist EXCEPT !.since_success = 0,
                                        !.counted = 0,
                                        !.backoff_from = None,
                                        !.last_result = "success"]
           ELSE /\ core' = [core EXCEPT !.llm_processor = register_failure(@, now).state]
                /\ hist' = [hist EXCEPT
                      !.since_success = IF @ < 3 THEN @ + 1 ELSE @,
                      !.third_at = IF hist.since_success + 1 >= 3 THEN Some(now) ELSE @,
                      !.counted = IF @ + 1 >= 3 THEN 0 ELSE @ + 1,
                      !.backoff_from = IF hist.counted + 1 >= 3 THEN Some(now) ELSE @,
                      !.last_result = "failure"]
        /\ UNCHANGED <<now, vad, chunks, next_chunk_id, current_buffer, chunk_start_time,
                       total_samples_processed, tx, rx, queue, wpc, wchunk, results, fpc,
                       returned, procs, fnvars>>

NextLlm ==
    \/ LlmTick
    \/ LlmProcess
    \/ LlmRequestReturns

SpecLlm == InitLlm /\ [][NextLlm]_vars

\* a successful request leaves the consecutive-failure count at zero
SuccessResetsCount ==
    hist.last_result = "success" => core.llm_processor.consecutive_failures = 0

(***************************************************************************)
(* C38: after three consecutive failed LLM requests with no success in     *)
(* between, every process call during the next 60 seconds returns a        *)
(* backoff error without sending a request, and a successful request       *)
(* resets the consecutive-failure count to zero.                           *)
(***************************************************************************)
C38_BackoffAfterThreeFailures ==
    /\ hist.last_call # None /\ Unwrap(hist.last_call).after_three =>
          Unwrap(hist.last_call).outcome = "backoff"
    /\ SuccessResetsCount

\* C38, as the source has it: the failures are counted from the last
\* success or the last start of a backoff, the calls are those made with
\* post-processing enabled, and the backoff ends when a request that was in
\* flight succeeds.
C38_BackoffAfterThreeCountedFailures ==
    /\ (/\ hist.last_call # None
        /\ Unwrap(hist.last_call).in_backoff
        /\ Unwrap(hist.last_call).enabled) =>
          /\ Unwrap(hist.last_call).outcome = "backoff"
          /\ Unwrap(hist.last_call).retry_after_secs # None
    /\ SuccessResetsCount

\* a call refused at the very end of the 60 seconds
C38_Witness ==
    /\ hist.last_call # None
    /\ Unwrap(hist.last_call).in_backoff
    /\ Unwrap(hist.last_call).enabled
    /\ Unwrap(hist.last_call).outcome = "backoff"
    /\ now = Unwrap(hist.backoff_from) + from_secs(60)
    /\ \A i \in LlmCallers : threads[i].pc = "idle"

====
